---------------------------- MODULE Spec2Model ----------------------------
(***************************************************************************)
(* prng3d: the streaming generation and presentation pipeline.             *)
(*                                                                         *)
(*   Spec      the generation worker (rng_thread) with its command queue,  *)
(*             the bounded result channel and the RngEngine handle; the    *)
(*             adaptive controller runs with the program's constants and   *)
(*             GeneratorState is carried as the term f^calls(base).        *)
(*   SpecChan  the running worker and the consumer of the result channel.  *)
(*   SpecAdapt the worker started at batch sizes the controller reaches.   *)
(*   SpecGen   the batch loop of rng_thread, one iteration per step, on    *)
(*             concrete recurrences and small batch sizes.                 *)
(*   SpecCtl   the control thread's frame: update_rng (drain, append and   *)
(*             evict, upload), the side panel's settings and               *)
(*             PointCloudBuffers.                                          *)
(*   SpecNorm  normalize_value on 64-bit two's complement inputs.          *)
(*   SpecCode  the worker and update_code with sources of every outcome.   *)
(*   SpecPause the running worker with pause and resume, under fairness.   *)
(*   SpecStop  the running worker, stop and the drop of RngEngine, under   *)
(*             fairness.                                                   *)
(*   SpecTwin  two runs of the same recurrence under different batch       *)
(*             latencies.                                                  *)
(*   SpecMath  MathEngine, math_thread, the bounded result channel and     *)
(*             update_math, under fairness.                                *)
(*   SpecMesh  the meshes math_thread builds on grids of several sizes.    *)
(*   SpecStats PerformanceStats and the bottleneck classification.         *)
(*   SpecSurf  compile_and_sample_surface with the values it samples.      *)
(*   SpecLat   the running worker with the time each batch takes, under    *)
(*             fairness.                                                   *)
(*   SpecOrder the worker and the commands the control thread sends, in    *)
(*             any order and at any moment of the worker's loop.           *)
(*   SpecHold  the paused worker with commands arriving and resume.        *)
(*   SpecBounds AtomicBounds: the six stores of set() against the six      *)
(*             loads at the start of a batch.                              *)
(*   SpecCount the worker on a full result channel, with commands, pause,  *)
(*             resume, the consumer and the statistics snapshot.           *)
(***************************************************************************)
EXTENDS Integers, Sequences, FiniteSets, TLC

VARIABLES
    \* ---- rng_thread locals and the state it shares with RngEngine
    cmdq,            \* rx_cmd / tx_cmd: the unbounded command channel
    chan,            \* tx_points / rx_points: the bounded batch channel
    paused,          \* RngEngine.paused (AtomicBool)
    last_error,      \* RngEngine.last_error
    bounds,          \* AtomicBounds: <<min_x, max_x, min_y, max_y, min_z, max_z>>
    rng_func,        \* vm / rng_func: the compiled recurrence, or None
    current_state,   \* GeneratorState
    batch_size,
    running,
    total_batches,   \* stats.total_batches
    dropped_batches, \* stats.dropped_batches
    wpc,             \* where rng_thread is
    \* ---- the batch in progress
    state,           \* `state`, the loop's copy of current_state
    batch,           \* `batch`, the Vec<f32> being filled
    iter,            \* iterations of the for loop completed
    bnd,             \* the six bounds as loaded at the start of the batch
    start_size,      \* batch_size when the batch started
    \* ---- history (not program state)
    produced,        \* the batches completed so far, in order
    received,        \* what try_recv_batch has returned, in order
    halted,          \* a runtime error occurred and no UpdateCode compiled since
    budget,          \* batches the run may still start (bounds the model)
    \* ---- control thread (App)
    accumulated_points_3d,
    accumulated_points_2d,
    max_points,      \* ui_state.max_points
    grid_size,       \* ui_state.grid_size
    view_mode,       \* ui_state.view_mode
    current_buffer,  \* PointCloudBuffers.current_buffer
    points_count_3d,
    points_count_2d,
    cpc,             \* where the frame is
    upload_calls,    \* history: calls of upload_3d / upload_2d so far
    upload_writes,   \* history: those of them that wrote a slot
    buffers_3d,      \* PointCloudBuffers.buffers_3d: what each slot holds
    buffers_2d,      \* PointCloudBuffers.buffers_2d
    \* ---- a second, independent run of the worker (its batches only)
    twin,
    \* ---- history: batches completed with the pause flag set, since the flag
    \* was last written
    since_pause,
    \* ---- the owner's teardown of RngEngine: "no", "joining", "joined"
    rng_join,
    \* ---- MathEngine, math_thread and the mesh the control thread shows
    mcmdq,           \* tx_cmd / rx_cmd of MathEngine: unbounded
    mres,            \* tx_result / rx_result: bounded
    mpc,             \* where math_thread is
    mpending,        \* the command math_thread took and the result it sends
    math_engine_error, \* MathEngine.last_error
    math_join,       \* the owner's teardown of MathEngine
    mdone,           \* history: commands handled, with their results
    msent,           \* history: compile commands sent
    current_math_mesh, \* App.current_math_mesh
    shown_mesh,      \* the mesh last uploaded to gpu.math_buffers
    math_last_error, \* App.math_last_error
    \* ---- PerformanceStats (with total_batches and dropped_batches above)
    fps,             \* stats.fps, frames per second
    rng_calls_per_sec,
    bottleneck,
    \* ---- the locals of compile_and_sample_surface, with values
    surf,
    \* ---- history: the timing of the batches (the run's regime, the last
    \* elapsed time measured, batch_size before it was adapted, batches timed)
    lat,
    \* ---- history: the commands sent on tx_cmd, in order (RngEngine's in
    \* SpecOrder, the compile commands of MathEngine in the math specs)
    sent_cmds,
    \* ---- AtomicBounds field by field: the stores of set() and the loads of
    \* rng_thread
    atomics,
    \* ---- normalize_value under test
    overflow_checks, \* the build profile: debug (TRUE) or release (FALSE)
    nv_value, nv_min, nv_max, nv_result, nv_pc

workerVars == <<cmdq, chan, paused, last_error, bounds, rng_func, current_state,
                batch_size, running, total_batches, dropped_batches, wpc>>
loopVars == <<state, batch, iter, bnd, start_size>>
histVars == <<produced, received, halted, budget>>
ctlVars == <<accumulated_points_3d, accumulated_points_2d, max_points, grid_size,
             view_mode, current_buffer, points_count_3d, points_count_2d, cpc,
             upload_calls, upload_writes>>
normVars == <<nv_value, nv_min, nv_max, nv_result, nv_pc>>
slotVars == <<buffers_3d, buffers_2d>>
mathVars == <<mcmdq, mres, mpc, mpending, math_engine_error, math_join, mdone,
              msent, current_math_mesh, shown_mesh, math_last_error>>
statVars == <<fps, rng_calls_per_sec, bottleneck>>
auxVars == <<statVars, surf, lat, sent_cmds, atomics>>
moreVars == <<slotVars, twin, since_pause, mathVars,rng_join,auxVars>>
vars == <<workerVars, loopVars, histVars, ctlVars, normVars, overflow_checks,
          moreVars>>

None == "None"

Max(a, b) == IF a >= b THEN a ELSE b
Min(a, b) == IF a <= b THEN a ELSE b

(***************************************************************************)
(* 64-bit two's complement integers: four 16-bit limbs, least significant  *)
(* first.  Bounds and results stay small and are plain integers.           *)
(***************************************************************************)
LimbBase == 2^16
LimbTop == 2^15

I64_MIN == <<0, 0, 0, LimbTop>>

IsNegI64(v) == v[4] >= LimbTop

\* the two's complement encoding of a small integer n, |n| < 65536
ToI64(n) ==
    IF n >= 0 THEN <<n, 0, 0, 0>>
    ELSE <<LimbBase + n, LimbBase - 1, LimbBase - 1, LimbBase - 1>>

\* -v modulo 2^64: complement every limb, add one with carry
WrappingNeg(v) ==
    LET c1 == (LimbBase - 1 - v[1]) + 1
        c2 == (LimbBase - 1 - v[2]) + (c1 \div LimbBase)
        c3 == (LimbBase - 1 - v[3]) + (c2 \div LimbBase)
        c4 == (LimbBase - 1 - v[4]) + (c3 \div LimbBase)
    IN  <<c1 % LimbBase, c2 % LimbBase, c3 % LimbBase, c4 % LimbBase>>

\* i64::abs in a release build: i64::MIN wraps to itself
WrappingAbs(v) == IF IsNegI64(v) THEN WrappingNeg(v) ELSE v

\* the unsigned value of the four limbs modulo d, 0 < d <= LimbTop
UMod(v, d) ==
    LET r4 == v[4] % d
        r3 == (r4 * LimbBase + v[3]) % d
        r2 == (r3 * LimbBase + v[2]) % d
        r1 == (r2 * LimbBase + v[1]) % d
    IN  r1

\* Rust's a % d on i64, d > 0: truncated, the sign of the dividend
RemI64(a, d) ==
    IF IsNegI64(a) THEN 0 - UMod(WrappingNeg(a), d) ELSE UMod(a, d)

\* i64 as f32: round to nearest, ties to even, on a 24-bit significand
RECURSIVE F32Ulp(_)
F32Ulp(m) == IF m < 16777216 THEN 1 ELSE 2 * F32Ulp(m \div 2)

ToF32(n) ==
    LET m == IF n < 0 THEN 0 - n ELSE n
        u == F32Ulp(m)
        q == m \div u
        r == m % u
        up == (2 * r > u) \/ (2 * r = u /\ q % 2 = 1)
        rounded == (IF up THEN q + 1 ELSE q) * u
    IN  IF n < 0 THEN 0 - rounded ELSE rounded

\* src/rng/engine.rs: normalize_value.  In a build with overflow checks
\* value.abs() panics on i64::MIN; without them it wraps.
normalize_value(value, min, max) ==
    LET v == RemI64(WrappingAbs(value), Max(max - min, 1))
    IN  ToF32(min + v)

\* value.abs() overflows for i64::MIN alone: with overflow checks (a debug
\* build) the call panics, without them (a release build) it wraps
AbsPanics(value) == overflow_checks /\ value = I64_MIN

(***************************************************************************)
(* Program constants.                                                      *)
(***************************************************************************)
TARGET_BATCH_TIME_MS == 5
MIN_BATCH_SIZE == 1000
MAX_BATCH_SIZE == 500000
CHANNEL_CAPACITY == 4
NUM_BUFFERS == 3
MAX_POINTS_PER_BUFFER == 10000000
\* the ceiling update_rng puts on max_points
MaxPointsCeiling == 4000000
INITIAL_BATCH_SIZE == 10000
DEFAULT_STATE == 12345

(***************************************************************************)
(* Bounds of the model.                                                    *)
(***************************************************************************)
MaxBatches == 2      \* batches the worker starts in one run of Spec
MaxChanBatches == 6  \* batches the worker starts in one run of SpecChan
MaxAdaptBatches == 1 \* batches the worker starts in one run of SpecAdapt
MaxGenBatches == 2   \* batches the worker starts in one run of SpecGen
MaxIter == 2         \* the largest batch_size SpecGen runs
MaxCtlBatches == 2   \* batches the worker starts in one run of SpecCtl
MaxUploads == 4      \* frames the control thread runs in SpecCtl
MaxTwinBatches == 2  \* batches each of the two runs of SpecTwin completes
MaxCodeBatches == 2  \* batches the worker starts in one run of SpecCode
MaxPauseBatches == 2 \* batches the worker starts in one run of SpecPause
MaxStopBatches == 5  \* batches the worker starts in one run of SpecStop
MaxMathCmds == 3     \* compile commands sent in one run of the math specs
MaxMathCmdQ == 1     \* commands waiting in MathEngine's command channel
MathSize == 2        \* resolution and samples of the commands of SpecMath
MaxRes == 4          \* largest grid side of SpecMesh
MaxStatBatches == 12 \* batches counted before a run of SpecStats
MaxSurfRes == 3      \* largest resolution of SpecSurf
MaxBoundSets == 1 \* calls of bounds.set() in one run of SpecBounds
MaxOrderCmds == 3 \* commands the owner sends in one run of SpecOrder
MaxOrderBatches == 2 \* batches the worker starts in one run of SpecOrder
MaxCountBatches == 1 \* batches the worker starts in one run of SpecCount
MaxLatMixed == 2 \* batches of any timing before a run of SpecLat settles
MaxLatBatches == 28 \* batches of one timing after it has settled
MaxCmdQ == 1         \* commands waiting in the command channel

(***************************************************************************)
(* The evaluator (external).  A source text is known by what compiling it  *)
(* gives: whether it parses, whether it defines rng, rng's arity, and      *)
(* the recurrence.  Spec does not run the recurrence: there a Value is the *)
(* term [base, calls] standing for f^calls(base), and a call may fail.     *)
(***************************************************************************)
Code(parses, has_rng, arity, fn) ==
    [parses |-> parses, has_rng |-> has_rng, arity |-> arity, fn |-> fn]

CodeInc == Code(TRUE, TRUE, 1, "inc")
CodeArity2 == Code(TRUE, TRUE, 2, "inc")
CodeNoRng == Code(TRUE, FALSE, 0, "inc")
CodeSyntax == Code(FALSE, FALSE, 0, "inc")

Codes == {CodeInc, CodeArity2, CodeNoRng, CodeSyntax}
\* a second recurrence that compiles
CodeFlip == Code(TRUE, TRUE, 1, "flip")
Seeds == {0}

Ok(v) == [ok |-> TRUE, val |-> v]
Err(e) == [ok |-> FALSE, err |-> e]

\* src/rng/engine.rs: compile_rng
compile_rng(code) ==
    IF ~code.parses THEN Err("parse error")
    ELSE IF ~code.has_rng THEN Err("function 'rng' not found")
    ELSE IF code.arity # 1 THEN Err("Function 'rng' must take exactly 1 argument")
    ELSE Ok(code.fn)

\* Value::int(n) as a term
IntTerm(n) == [base |-> n, calls |-> 0]
\* the value k further calls of the recurrence lead to
AfterCalls(v, k) == [v EXCEPT !.calls = @ + k]

(***************************************************************************)
(* The adaptive controller.  1.2f32 = 6/5 + 1/(5*2^22) and                 *)
(* 0.8f32 = 4/5 + 1/(5*2^24) exactly; the product is rounded to f32        *)
(* (nearest, ties to even) and then truncated by `as usize`.  Batch sizes  *)
(* are below 2^22, so `batch_size as f32` is exact.                        *)
(***************************************************************************)
RECURSIVE Pow2Floor(_)
Pow2Floor(q) == IF q < 2 THEN 1 ELSE 2 * Pow2Floor(q \div 2)

\* trunc(f32(q + num / (5 * 2^k))), 0 <= num < 5 * 2^k: the rounding reaches
\* q + 1 when the fraction is within half an ulp of it
TruncF32(q, num, k) ==
    LET half == IF q = 0 THEN 0 ELSE (5 * Pow2Floor(q)) \div (2^(24 - k))
    IN  IF half > 0 /\ num + half >= 5 * 2^k THEN q + 1 ELSE q

\* (batch_size as f32 * 1.2) as usize
GrowF32(n) == TruncF32((6 * n) \div 5, ((6 * n) % 5) * 2^22 + n, 22)

\* (batch_size as f32 * 0.8) as usize
ShrinkF32(n) == TruncF32((4 * n) \div 5, ((4 * n) % 5) * 2^24 + n, 24)

\* Adapt without the ceiling and the floor
AdaptUnclamped(n, elapsed_us) ==
    IF elapsed_us < TARGET_BATCH_TIME_MS * 800 THEN GrowF32(n)
    ELSE IF elapsed_us > TARGET_BATCH_TIME_MS * 1200 THEN ShrinkF32(n)
    ELSE n

\* Adapt with the two factors exchanged
AdaptSwapped(n, elapsed_us) ==
    IF elapsed_us < TARGET_BATCH_TIME_MS * 800
    THEN Max(ShrinkF32(n), MIN_BATCH_SIZE)
    ELSE IF elapsed_us > TARGET_BATCH_TIME_MS * 1200
    THEN Min(GrowF32(n), MAX_BATCH_SIZE)
    ELSE n

\* elapsed is measured in microseconds; TARGET * 0.8 and TARGET * 1.2 are
\* 4.0 and 6.0 in f32
Adapt(n, elapsed_us) ==
    IF elapsed_us < TARGET_BATCH_TIME_MS * 800
    THEN Min(GrowF32(n), MAX_BATCH_SIZE)
    ELSE IF elapsed_us > TARGET_BATCH_TIME_MS * 1200
    THEN Max(ShrinkF32(n), MIN_BATCH_SIZE)
    ELSE n

ElapsedSamples == {3999, 4000, 6000, 6001}

(***************************************************************************)
(* Spec: RngEngine and rng_thread.                                         *)
(***************************************************************************)
DefaultBounds == <<-500, 500, -500, 500, -500, 500>>

\* RngEngine::new: the channels, the flag, the error slot, the bounds (as
\* the control thread has set them)
\* PerformanceStats::default()
StatsInit ==
    /\ fps = 0
    /\ rng_calls_per_sec = 0
    /\ bottleneck = "Balanced"

AuxInit ==
    /\ StatsInit
    /\ surf = [pc |-> "idle", fn |-> "flat", resolution |-> 0, x0 |-> 0,
               y0 |-> 0, dx |-> 0, dy |-> 0, k |-> 0, z_values |-> <<>>,
               z_min |-> 0, z_max |-> 0, slopes |-> <<>>, mesh_z_min |-> 0,
               mesh_z_max |-> 0]
    /\ lat = [regime |-> "any", elapsed_us |-> 0, before |-> 0, n |-> 0]
    /\ sent_cmds = <<>>
    /\ atomics = [k |-> 0, sk |-> 6, new |-> DefaultBounds, sets |-> 0,
             passed |-> [i \in 1..6 |-> {DefaultBounds[i]}],
             stores |-> [i \in 1..6 |-> <<DefaultBounds[i]>>],
             seen |-> [i \in 1..6 |-> 1]]

EngineInit(b) ==
    /\ cmdq = <<>>
    /\ chan = <<>>
    /\ paused = FALSE
    /\ last_error = None
    /\ bounds = b
    /\ dropped_batches = 0
    /\ since_pause = 0
    /\ rng_join = "no"
    /\ AuxInit

\* Vec::with_capacity(batch_size * 3).  A batch is known by the state it
\* started from and its length; `data` holds its values where the
\* recurrence is run (SpecGen).
EmptyBatch(st) == [from |-> st, len |-> 0, data |-> <<>>]

\* rng_thread at the top of its loop, with the history that led there
ThreadAt(func, run, size, st, done, n) ==
    /\ rng_func = func
    /\ running = run
    /\ batch_size = size
    /\ current_state = st
    /\ wpc = "cmds"
    /\ state = st
    /\ batch = EmptyBatch(st)
    /\ iter = 0
    /\ bnd = bounds
    /\ start_size = size
    /\ total_batches = Len(done)
    /\ produced = done
    /\ received = [i \in 1..Len(done) |-> [id |-> i, data |-> done[i]]]
    /\ halted = FALSE
    /\ budget = n
    /\ twin = [size |-> INITIAL_BATCH_SIZE, calls |-> 0, done |-> <<>>]

\* MathEngine::new
MathInit ==
    /\ mcmdq = <<>>
    /\ mres = <<>>
    /\ mpc = "recv"
    /\ mpending = [cmd |-> [op |-> "Stop",
                            code |-> [parses |-> FALSE, defined |-> FALSE,
                                      arity |-> 0, fail_at |-> 0,
                                      badcall |-> "err"],
                            a |-> 0, b |-> 0],
                   res |-> [kind |-> "None", err |-> None, vertices |-> 0,
                            normals |-> 0, indices |-> <<>>],
                   calls |-> 0]
    /\ math_engine_error = None
    /\ math_join = "no"
    /\ mdone = <<>>
    /\ msent = 0
    /\ current_math_mesh = "None"
    /\ shown_mesh = [kind |-> "None", err |-> None, vertices |-> 0,
                     normals |-> 0, indices |-> <<>>]
    /\ math_last_error = None

\* a slot no upload has written
EmptySlot == [upload |-> 0, count |-> 0]

\* App::new, UiState::default, PointCloudBuffers::new
CtlInit ==
    /\ MathInit
    /\ buffers_3d = [slot \in 0..(NUM_BUFFERS - 1) |-> EmptySlot]
    /\ buffers_2d = [slot \in 0..(NUM_BUFFERS - 1) |-> EmptySlot]
    /\ accumulated_points_3d = <<>>
    /\ accumulated_points_2d = <<>>
    /\ max_points = 1000000
    /\ grid_size = 512
    /\ view_mode = "Mode3D"
    /\ current_buffer = 0
    /\ points_count_3d = 0
    /\ points_count_2d = 0
    /\ cpc = "frame"
    /\ upload_calls = 0
    /\ upload_writes = 0

NormIdle ==
    /\ nv_value = ToI64(0)
    /\ nv_min = 0
    /\ nv_max = 1
    /\ nv_result = 0
    /\ nv_pc = "idle"

Init ==
    /\ EngineInit(DefaultBounds)
    /\ ThreadAt(None, FALSE, INITIAL_BATCH_SIZE, IntTerm(DEFAULT_STATE), <<>>,
                MaxBatches)
    /\ CtlInit
    /\ NormIdle
    /\ overflow_checks = FALSE

notWorker == <<ctlVars, normVars, overflow_checks, moreVars>>

\* ---- RngEngine, called by the control thread -------------------------------
Send(cmd) ==
    /\ Len(cmdq) < MaxCmdQ
    /\ cmdq' = Append(cmdq, cmd)

update_code(code) ==
    /\ Send([op |-> "UpdateCode", code |-> code])
    /\ UNCHANGED <<chan, paused, last_error, bounds, rng_func, current_state,
                   batch_size, running, total_batches, dropped_batches, wpc,
                   loopVars, histVars, notWorker>>

reset ==
    /\ Send([op |-> "Reset"])
    /\ UNCHANGED <<chan, paused, last_error, bounds, rng_func, current_state,
                   batch_size, running, total_batches, dropped_batches, wpc,
                   loopVars, histVars, notWorker>>

set_seed(seed) ==
    /\ Send([op |-> "SetSeed", seed |-> seed])
    /\ UNCHANGED <<chan, paused, last_error, bounds, rng_func, current_state,
                   batch_size, running, total_batches, dropped_batches, wpc,
                   loopVars, histVars, notWorker>>

stop ==
    /\ Send([op |-> "Stop"])
    /\ UNCHANGED <<chan, paused, last_error, bounds, rng_func, current_state,
                   batch_size, running, total_batches, dropped_batches, wpc,
                   loopVars, histVars, notWorker>>

pause ==
    /\ paused' = TRUE
    /\ since_pause' = 0
    /\ Send([op |-> "Pause"])
    /\ UNCHANGED <<chan, last_error, bounds, rng_func, current_state,
                   batch_size, running, total_batches, dropped_batches, wpc,
                   loopVars, histVars, ctlVars, normVars, overflow_checks,
                   slotVars, twin, mathVars,rng_join,auxVars>>

resume ==
    /\ paused' = FALSE
    /\ since_pause' = 0
    /\ Send([op |-> "Resume"])
    /\ UNCHANGED <<chan, last_error, bounds, rng_func, current_state,
                   batch_size, running, total_batches, dropped_batches, wpc,
                   loopVars, histVars, ctlVars, normVars, overflow_checks,
                   slotVars, twin, mathVars,rng_join,auxVars>>

\* try_recv_batch taking the newest batch instead of the oldest
try_recv_batch_newest ==
    /\ chan # <<>>
    /\ chan' = SubSeq(chan, 1, Len(chan) - 1)
    /\ received' = Append(received, chan[Len(chan)])
    /\ UNCHANGED <<cmdq, paused, last_error, bounds, rng_func, current_state,
                   batch_size, running, total_batches, dropped_batches, wpc,
                   loopVars, produced, halted, budget, notWorker>>

\* rx_points.try_recv().ok(), when a batch is waiting
try_recv_batch ==
    /\ chan # <<>>
    /\ chan' = Tail(chan)
    /\ received' = Append(received, Head(chan))
    /\ UNCHANGED <<cmdq, paused, last_error, bounds, rng_func, current_state,
                   batch_size, running, total_batches, dropped_batches, wpc,
                   loopVars, produced, halted, budget, notWorker>>

\* ---- rng_thread: the command drain ----------------------------------------
Recv(op) ==
    /\ wpc = "cmds"
    /\ cmdq # <<>>
    /\ Head(cmdq).op = op
    /\ cmdq' = Tail(cmdq)

\* a source that does not compile leaves the function it found in place
OnUpdateCodeKeepsFunction ==
    /\ Recv("UpdateCode")
    /\ LET r == compile_rng(Head(cmdq).code)
       IN  IF r.ok
           THEN /\ last_error' = None
                /\ rng_func' = r.val
                /\ current_state' = IntTerm(DEFAULT_STATE)
                /\ batch_size' = INITIAL_BATCH_SIZE
                /\ running' = TRUE
                /\ halted' = FALSE
           ELSE /\ last_error' = r.err
                /\ UNCHANGED <<rng_func, running, current_state, batch_size,
                               halted>>
    /\ UNCHANGED <<chan, paused, bounds, total_batches, dropped_batches, wpc,
                   loopVars, produced, received, budget, notWorker>>

OnUpdateCode ==
    /\ Recv("UpdateCode")
    /\ LET r == compile_rng(Head(cmdq).code)
       IN  IF r.ok
           THEN /\ last_error' = None
                /\ rng_func' = r.val
                /\ current_state' = IntTerm(DEFAULT_STATE)
                /\ batch_size' = INITIAL_BATCH_SIZE
                /\ running' = TRUE
                /\ halted' = FALSE
           ELSE /\ last_error' = r.err
                /\ rng_func' = None
                /\ running' = FALSE
                /\ UNCHANGED <<current_state, batch_size, halted>>
    /\ UNCHANGED <<chan, paused, bounds, total_batches, dropped_batches, wpc,
                   loopVars, produced, received, budget, notWorker>>

\* Stop taken off the channel like Pause: the loop goes on
OnStopIgnored ==
    /\ Recv("Stop")
    /\ UNCHANGED <<chan, paused, last_error, bounds, rng_func, current_state,
                   batch_size, running, total_batches, dropped_batches, wpc,
                   loopVars, histVars, notWorker>>

OnStop ==
    /\ Recv("Stop")
    /\ wpc' = "stopped"
    /\ UNCHANGED <<chan, paused, last_error, bounds, rng_func, current_state,
                   batch_size, running, total_batches, dropped_batches,
                   loopVars, histVars, notWorker>>

\* Reset that also forgets the last error
OnResetClearsError ==
    /\ Recv("Reset")
    /\ current_state' = IntTerm(DEFAULT_STATE)
    /\ batch_size' = INITIAL_BATCH_SIZE
    /\ last_error' = None
    /\ UNCHANGED <<chan, paused, bounds, rng_func, running,
                   total_batches, dropped_batches, wpc, loopVars, histVars,
                   notWorker>>

\* SetSeed that is taken off the channel without effect while the pause
\* flag is set
OnSetSeedUnlessPaused ==
    /\ Recv("SetSeed")
    /\ current_state' = IF paused THEN current_state
                        ELSE IntTerm(Head(cmdq).seed)
    /\ UNCHANGED <<chan, paused, last_error, bounds, rng_func, batch_size,
                   running, total_batches, dropped_batches, wpc, loopVars,
                   histVars, notWorker>>

\* SetSeed that also restarts the controller at the initial batch size
OnSetSeedResetsSize ==
    /\ Recv("SetSeed")
    /\ current_state' = IntTerm(Head(cmdq).seed)
    /\ batch_size' = INITIAL_BATCH_SIZE
    /\ UNCHANGED <<chan, paused, last_error, bounds, rng_func,
                   running, total_batches, dropped_batches, wpc, loopVars,
                   histVars, notWorker>>

\* Reset that also starts the batch count again
OnResetZeroesTotal ==
    /\ Recv("Reset")
    /\ current_state' = IntTerm(DEFAULT_STATE)
    /\ batch_size' = INITIAL_BATCH_SIZE
    /\ total_batches' = 0
    /\ UNCHANGED <<chan, paused, last_error, bounds, rng_func, running,
                   dropped_batches, wpc, loopVars, histVars, notWorker>>

\* Reset that also sets the worker running again
OnResetRestarts ==
    /\ Recv("Reset")
    /\ current_state' = IntTerm(DEFAULT_STATE)
    /\ batch_size' = INITIAL_BATCH_SIZE
    /\ running' = (rng_func # None)
    /\ UNCHANGED <<chan, paused, last_error, bounds, rng_func,
                   total_batches, dropped_batches, wpc, loopVars, histVars,
                   notWorker>>

OnReset ==
    /\ Recv("Reset")
    /\ current_state' = IntTerm(DEFAULT_STATE)
    /\ batch_size' = INITIAL_BATCH_SIZE
    /\ UNCHANGED <<chan, paused, last_error, bounds, rng_func, running,
                   total_batches, dropped_batches, wpc, loopVars, histVars,
                   notWorker>>

OnSetSeed ==
    /\ Recv("SetSeed")
    /\ current_state' = IntTerm(Head(cmdq).seed)
    /\ UNCHANGED <<chan, paused, last_error, bounds, rng_func, batch_size,
                   running, total_batches, dropped_batches, wpc, loopVars,
                   histVars, notWorker>>

OnPause ==
    /\ Recv("Pause")
    /\ UNCHANGED <<chan, paused, last_error, bounds, rng_func, current_state,
                   batch_size, running, total_batches, dropped_batches, wpc,
                   loopVars, histVars, notWorker>>

OnResume ==
    /\ Recv("Resume")
    /\ UNCHANGED <<chan, paused, last_error, bounds, rng_func, current_state,
                   batch_size, running, total_batches, dropped_batches, wpc,
                   loopVars, histVars, notWorker>>

\* ---- rng_thread: one batch -------------------------------------------------
\* the command channel is empty and the worker is not running, is paused or
\* has no function: sleep 10 ms and go round again
Sleep ==
    /\ wpc = "cmds"
    /\ cmdq = <<>>
    /\ ~running \/ paused \/ rng_func = None
    /\ UNCHANGED vars

\* the batch begins whatever the pause flag says
StartBatchIgnoresPause ==
    /\ wpc = "cmds"
    /\ cmdq = <<>>
    /\ running
    /\ rng_func # None
    /\ budget > 0
    /\ budget' = budget - 1
    /\ bnd' = bounds
    /\ batch' = EmptyBatch(current_state)
    /\ state' = current_state
    /\ iter' = 0
    /\ start_size' = batch_size
    /\ wpc' = "loop"
    /\ UNCHANGED <<cmdq, chan, paused, last_error, bounds, rng_func,
                   current_state, batch_size, running, total_batches,
                   dropped_batches, produced, received, halted, notWorker>>

\* the batch begins with commands still waiting on the channel
StartBatchSkipsDrain ==
    /\ wpc = "cmds"
    /\ running /\ ~paused
    /\ rng_func # None
    /\ budget > 0
    /\ budget' = budget - 1
    /\ bnd' = bounds
    /\ batch' = EmptyBatch(current_state)
    /\ state' = current_state
    /\ iter' = 0
    /\ start_size' = batch_size
    /\ wpc' = "loop"
    /\ UNCHANGED <<cmdq, chan, paused, last_error, bounds, rng_func,
                   current_state, batch_size, running, total_batches,
                   dropped_batches, produced, received, halted, notWorker>>

\* the six bounds are loaded and the batch begins
StartBatch ==
    /\ wpc = "cmds"
    /\ cmdq = <<>>
    /\ running /\ ~paused
    /\ rng_func # None
    /\ budget > 0
    /\ budget' = budget - 1
    /\ bnd' = bounds
    /\ batch' = EmptyBatch(current_state)
    /\ state' = current_state
    /\ iter' = 0
    /\ start_size' = batch_size
    /\ wpc' = "loop"
    /\ UNCHANGED <<cmdq, chan, paused, last_error, bounds, rng_func,
                   current_state, batch_size, running, total_batches,
                   dropped_batches, produced, received, halted, notWorker>>

\* every call of every iteration returns: 3 * batch_size values are pushed
LoopCompletes ==
    /\ wpc = "loop"
    /\ state' = AfterCalls(state, 3 * batch_size)
    /\ batch' = [batch EXCEPT !.len = 3 * batch_size]
    /\ iter' = batch_size
    /\ wpc' = "after"
    /\ UNCHANGED <<cmdq, chan, paused, last_error, bounds, rng_func,
                   current_state, batch_size, running, total_batches,
                   dropped_batches, bnd, start_size, histVars, notWorker>>

\* a failing call records the error and abandons the batch, and the worker
\* stays running
LoopFailsKeepsRunning ==
    /\ wpc = "loop"
    /\ last_error' = "runtime error"
    /\ halted' = TRUE
    /\ wpc' = "cmds"
    /\ UNCHANGED <<cmdq, chan, paused, bounds, rng_func, current_state,
                   batch_size, running, total_batches, dropped_batches,
                   loopVars, produced, received, budget, notWorker>>

\* one of the three calls of some iteration fails: the error is recorded,
\* the loop is left and the batch abandoned (`continue`)
LoopFails ==
    /\ wpc = "loop"
    /\ last_error' = "runtime error"
    /\ running' = FALSE
    /\ halted' = TRUE
    /\ wpc' = "cmds"
    /\ UNCHANGED <<cmdq, chan, paused, bounds, rng_func, current_state,
                   batch_size, total_batches, dropped_batches, loopVars,
                   produced, received, budget, notWorker>>

\* the batch is counted but the state it reached is not committed
FinishBatchKeepsState ==
    /\ wpc = "after"
    /\ current_state' = current_state
    /\ \E elapsed_us \in ElapsedSamples :
           batch_size' = Adapt(batch_size, elapsed_us)
    /\ total_batches' = total_batches + 1
    /\ produced' = Append(produced, batch)
    /\ since_pause' = IF paused THEN since_pause + 1 ELSE since_pause
    /\ wpc' = "send"
    /\ UNCHANGED <<cmdq, chan, paused, last_error, bounds, rng_func, running,
                   dropped_batches, loopVars, received, halted, budget,
                   ctlVars, normVars, overflow_checks, slotVars, twin,
                   mathVars,rng_join,auxVars>>

\* the state is committed, the batch size adapted, the batch counted
FinishBatchAt(elapsed_us) ==
    /\ wpc = "after"
    /\ current_state' = state
    /\ batch_size' = Adapt(batch_size, elapsed_us)
    /\ total_batches' = total_batches + 1
    /\ produced' = Append(produced, batch)
    /\ since_pause' = IF paused THEN since_pause + 1 ELSE since_pause
    /\ wpc' = "send"
    /\ UNCHANGED <<cmdq, chan, paused, last_error, bounds, rng_func, running,
                   dropped_batches, loopVars, received, halted, budget,
                   ctlVars, normVars, overflow_checks, slotVars, twin,
                   mathVars,rng_join>>

FinishBatch ==
    /\ \E elapsed_us \in ElapsedSamples : FinishBatchAt(elapsed_us)
    /\ UNCHANGED auxVars

\* try_send on a channel that takes every batch
TrySendUnbounded ==
    /\ wpc = "send"
    /\ chan' = Append(chan, [id |-> total_batches, data |-> batch])
    /\ wpc' = "cmds"
    /\ UNCHANGED <<cmdq, paused, last_error, bounds, rng_func, current_state,
                   batch_size, running, total_batches, dropped_batches,
                   loopVars, histVars, notWorker>>

\* try_send where a dropped batch takes the state back to where the batch
\* started
TrySendDropRewinds ==
    /\ wpc = "send"
    /\ IF Len(chan) < CHANNEL_CAPACITY
       THEN /\ chan' = Append(chan, [id |-> total_batches, data |-> batch])
            /\ UNCHANGED <<dropped_batches, current_state>>
       ELSE /\ dropped_batches' = dropped_batches + 1
            /\ current_state' = batch.from
            /\ UNCHANGED chan
    /\ wpc' = "cmds"
    /\ UNCHANGED <<cmdq, paused, last_error, bounds, rng_func, batch_size,
                   running, total_batches, loopVars, histVars, notWorker>>

\* tx_points.try_send(batch): Ok, or Full and the batch is dropped.  The
\* receiver outlives the thread (RngEngine::drop joins it), so Disconnected
\* does not arise.
TrySend ==
    /\ wpc = "send"
    /\ IF Len(chan) < CHANNEL_CAPACITY
       THEN /\ chan' = Append(chan, [id |-> total_batches, data |-> batch])
            /\ UNCHANGED dropped_batches
       ELSE /\ dropped_batches' = dropped_batches + 1
            /\ UNCHANGED chan
    /\ wpc' = "cmds"
    /\ UNCHANGED <<cmdq, paused, last_error, bounds, rng_func, current_state,
                   batch_size, running, total_batches, loopVars, histVars,
                   notWorker>>

Next ==
    \/ \E code \in Codes : update_code(code)
    \/ reset
    \/ \E seed \in Seeds : set_seed(seed)
    \/ stop
    \/ pause
    \/ resume
    \/ try_recv_batch
    \/ OnUpdateCode
    \/ OnStop
    \/ OnReset
    \/ OnSetSeed
    \/ OnPause
    \/ OnResume
    \/ Sleep
    \/ StartBatch
    \/ LoopCompletes
    \/ LoopFails
    \/ FinishBatch
    \/ TrySend

Spec == Init /\ [][Next]_vars

(***************************************************************************)
(* SpecChan: the worker is running (an UpdateCode has compiled) and no     *)
(* further command is sent; the producer and the consumer share the        *)
(* channel.                                                                *)
(***************************************************************************)
InitChan ==
    /\ EngineInit(DefaultBounds)
    /\ ThreadAt("inc", TRUE, INITIAL_BATCH_SIZE, IntTerm(DEFAULT_STATE), <<>>,
                MaxChanBatches)
    /\ CtlInit
    /\ NormIdle
    /\ overflow_checks = FALSE

NextChan ==
    \/ try_recv_batch
    \/ StartBatch
    \/ LoopCompletes
    \/ LoopFails
    \/ FinishBatch
    \/ TrySend
    \/ Sleep

SpecChan == InitChan /\ [][NextChan]_vars

(***************************************************************************)
(* SpecAdapt: the worker after an UpdateCode has compiled and a run of     *)
(* batches, all fast or all slow, has been completed and drained; from     *)
(* there every operation of Spec.                                          *)
(***************************************************************************)
\* the worker's batch size, calls made and batches completed after k
\* batches of the same measured latency
AfterBatch(w, elapsed_us) ==
    [size |-> Adapt(w.size, elapsed_us),
     calls |-> w.calls + 3 * w.size,
     done |-> Append(w.done,
                     [from |-> AfterCalls(IntTerm(DEFAULT_STATE), w.calls),
                      len |-> 3 * w.size, data |-> <<>>])]

RECURSIVE RunFrom(_, _, _)
RunFrom(w0, k, e) ==
    IF k = 0 \/ w0.size = 0 THEN w0 ELSE RunFrom(AfterBatch(w0, e), k - 1, e)

AfterRun(k, elapsed_us) ==
    RunFrom([size |-> INITIAL_BATCH_SIZE, calls |-> 0, done |-> <<>>], k, elapsed_us)

\* run lengths: none, and the runs that stop one batch short of the floor
\* and of the ceiling
AdaptRuns == {<<0, 3999>>, <<10, 6001>>, <<21, 3999>>}

InitAdapt ==
    /\ EngineInit(DefaultBounds)
    /\ \E r \in AdaptRuns :
          LET w == AfterRun(r[1], r[2])
          IN  ThreadAt("inc", TRUE, w.size,
                       AfterCalls(IntTerm(DEFAULT_STATE), w.calls), w.done,
                       MaxAdaptBatches)
    /\ CtlInit
    /\ NormIdle
    /\ overflow_checks = FALSE

SpecAdapt == InitAdapt /\ [][Next]_vars

(***************************************************************************)
(* SpecCode: the worker from construction with UpdateCode as its only      *)
(* command, on sources that compile to one of two recurrences or fail to   *)
(* compile in each of the three ways.                                      *)
(***************************************************************************)
InitCode ==
    /\ EngineInit(DefaultBounds)
    /\ ThreadAt(None, FALSE, INITIAL_BATCH_SIZE, IntTerm(DEFAULT_STATE), <<>>,
                MaxCodeBatches)
    /\ CtlInit
    /\ NormIdle
    /\ overflow_checks = FALSE

NextCode ==
    \/ \E code \in Codes \cup {CodeFlip} : update_code(code)
    \/ try_recv_batch
    \/ OnUpdateCode
    \/ Sleep
    \/ StartBatch
    \/ LoopCompletes
    \/ LoopFails
    \/ FinishBatch
    \/ TrySend

SpecCode == InitCode /\ [][NextCode]_vars

(***************************************************************************)
(* SpecPause: the running worker, paused and resumed by its owner.  The    *)
(* worker's steps are fair: a step that stays possible is taken, the      *)
(* command drain comes to its end (commands arrive at the rate of user     *)
(* input, the drain takes them at once), and a batch starts once the drain *)
(* has found the channel empty, however often that has to happen.          *)
(***************************************************************************)
InitPause ==
    /\ EngineInit(DefaultBounds)
    /\ ThreadAt("inc", TRUE, INITIAL_BATCH_SIZE, IntTerm(DEFAULT_STATE), <<>>,
                MaxPauseBatches)
    /\ CtlInit
    /\ NormIdle
    /\ overflow_checks = FALSE

NextPause ==
    \/ pause
    \/ resume
    \/ try_recv_batch
    \/ OnPause
    \/ OnResume
    \/ Sleep
    \/ StartBatch
    \/ LoopCompletes
    \/ FinishBatch
    \/ TrySend

SpecPause ==
    /\ InitPause
    /\ [][NextPause]_vars
    /\ WF_vars(OnPause \/ OnResume)
    /\ SF_vars((OnPause \/ OnResume) /\ cmdq' = <<>>)
    /\ SF_vars(StartBatch)
    /\ WF_vars(LoopCompletes)
    /\ WF_vars(FinishBatch)
    /\ WF_vars(TrySend)

(***************************************************************************)
(* SpecStop: the running worker and its owner, who pauses, resumes, drains *)
(* or not, stops the worker and drops the engine.  The worker's steps are  *)
(* weakly fair (every evaluator call returns), and so is the return of     *)
(* join once the thread has ended.                                         *)
(***************************************************************************)
\* Drop for RngEngine: Stop is sent, then the thread is joined
drop_rng_engine ==
    /\ rng_join = "no"
    /\ Send([op |-> "Stop"])
    /\ rng_join' = "joining"
    /\ UNCHANGED <<chan, paused, last_error, bounds, rng_func, current_state,
                   batch_size, running, total_batches, dropped_batches, wpc,
                   loopVars, histVars, ctlVars, normVars, overflow_checks,
                   slotVars, twin, since_pause, mathVars, auxVars>>

\* handle.join() returns: the thread has ended
join_rng_thread ==
    /\ rng_join = "joining"
    /\ wpc = "stopped"
    /\ rng_join' = "joined"
    /\ UNCHANGED <<workerVars, loopVars, histVars, ctlVars, normVars,
                   overflow_checks, slotVars, twin, since_pause, mathVars,
                   auxVars>>

InitStop ==
    /\ EngineInit(DefaultBounds)
    /\ ThreadAt("inc", TRUE, INITIAL_BATCH_SIZE, IntTerm(DEFAULT_STATE), <<>>,
                MaxStopBatches)
    /\ CtlInit
    /\ NormIdle
    /\ overflow_checks = FALSE

\* the worker's steps
WorkerStep ==
    \/ OnStop
    \/ OnPause
    \/ OnResume
    \/ StartBatch
    \/ LoopCompletes
    \/ LoopFails
    \/ FinishBatch
    \/ TrySend

NextStop ==
    \/ rng_join = "no" /\ pause
    \/ rng_join = "no" /\ resume
    \/ rng_join = "no" /\ stop
    \/ rng_join = "no" /\ try_recv_batch
    \/ drop_rng_engine
    \/ join_rng_thread
    \/ Sleep
    \/ WorkerStep

SpecStop ==
    /\ InitStop
    /\ [][NextStop]_vars
    /\ WF_vars(WorkerStep)
    /\ WF_vars(join_rng_thread)

(***************************************************************************)
(* MathEngine and math_thread.  A source text is carried as what the       *)
(* evaluator makes of it for the command at hand: whether it parses,       *)
(* whether the functions the command looks up are defined, their arity,    *)
(* the sampling call at which an evaluation fails (0: none) and, for a     *)
(* function called with a number of arguments that is not its arity, what  *)
(* the evaluator's call does ("err" or "value").                           *)
(***************************************************************************)
RESULT_CAPACITY == 2

MathCode(parses, defined, arity, fail_at, badcall) ==
    [parses |-> parses, defined |-> defined, arity |-> arity,
     fail_at |-> fail_at, badcall |-> badcall]

NoMathCode == MathCode(FALSE, FALSE, 0, 0, "err")

MathCmd(op, code, a, b) == [op |-> op, code |-> code, a |-> a, b |-> b]

CompileSurface(code, resolution) == MathCmd("CompileSurface", code, resolution, 0)
CompileParametricCurve(code, samples) ==
    MathCmd("CompileParametricCurve", code, samples, 0)
CompileParametricSurface(code, u_samples, v_samples) ==
    MathCmd("CompileParametricSurface", code, u_samples, v_samples)
MathStop == MathCmd("Stop", NoMathCode, 0, 0)

\* MathResult: a mesh of one of three kinds, or Error
MathResult(kind, err, vertices, normals, indices) ==
    [kind |-> kind, err |-> err, vertices |-> vertices, normals |-> normals,
     indices |-> indices]

MathError(e) == MathResult("Error", e, 0, 0, <<>>)
NoMathResult == MathResult("None", None, 0, 0, <<>>)

\* what a compile function returns, with the sampling calls it made
Compiled(res, calls) == [res |-> res, calls |-> calls]

\* the calls of a sampling loop of n calls with nargs arguments each: the
\* loop ends at the first call that returns Err
SampleCalls(code, nargs, n) ==
    IF n = 0 THEN [ok |-> TRUE, calls |-> 0]
    ELSE IF code.arity # nargs /\ code.badcall = "err"
         THEN [ok |-> FALSE, calls |-> 1]
    ELSE IF code.fail_at \in 1..n
         THEN [ok |-> FALSE, calls |-> code.fail_at]
    ELSE [ok |-> TRUE, calls |-> n]

\* the elements pushed by `for i in 0..rows { for j in 0..cols { 3 pushes } }`
GridPushes(rows, cols) ==
    3 * Cardinality({ij \in (0..(rows - 1)) \X (0..(cols - 1)) : TRUE})

\* the two triangles of the cell (i, j) in a grid stored with the given stride
QuadIndices(i, j, stride) ==
    LET tl == i * stride + j
        tr == i * stride + j + 1
        bl == (i + 1) * stride + j
        br == (i + 1) * stride + j + 1
    IN  <<tl, bl, tr, tr, bl, br>>

RECURSIVE IndexLoop(_, _, _, _, _, _)
\* for i in i0..rows { for j in j0..cols { push the cell's six indices } }
IndexLoop(i, j, rows, cols, stride, acc) ==
    IF i >= rows THEN acc
    ELSE IF j >= cols THEN IndexLoop(i + 1, 0, rows, cols, stride, acc)
    ELSE IndexLoop(i, j + 1, rows, cols, stride,
                   acc \o QuadIndices(i, j, stride))

\* the index loop run over every row and column of the grid
surface_indices_all_rows(resolution) ==
    IndexLoop(0, 0, resolution, resolution, resolution, <<>>)

surface_indices(resolution) ==
    IndexLoop(0, 0, resolution - 1, resolution - 1, resolution, <<>>)

\* the index loop with the rows' length taken for the stride
parametric_surface_indices_u_stride(u_samples, v_samples) ==
    IndexLoop(0, 0, u_samples - 1, v_samples - 1, u_samples, <<>>)

parametric_surface_indices(u_samples, v_samples) ==
    IndexLoop(0, 0, u_samples - 1, v_samples - 1, v_samples, <<>>)

compile_and_sample_surface(code, resolution) ==
    IF ~code.parses THEN Compiled(MathError("parse error"), 0)
    ELSE IF ~code.defined THEN Compiled(MathError("function 'f' not found"), 0)
    ELSE IF code.arity # 2
         THEN Compiled(MathError("Function 'f' must take 2 arguments (x, y)"), 0)
    ELSE LET s == SampleCalls(code, 2, resolution * resolution)
         IN  IF ~s.ok THEN Compiled(MathError("Evaluation error at (x, y)"), s.calls)
             ELSE Compiled(MathResult("Surface", None,
                                      GridPushes(resolution, resolution),
                                      GridPushes(resolution, resolution),
                                      surface_indices(resolution)),
                           s.calls)

compile_and_sample_parametric(code, samples) ==
    IF ~code.parses THEN Compiled(MathError("parse error"), 0)
    ELSE IF ~code.defined THEN Compiled(MathError("fx: function not found"), 0)
    ELSE LET s == SampleCalls(code, 1, 3 * samples)
         IN  IF ~s.ok THEN Compiled(MathError("fx error"), s.calls)
             ELSE Compiled(MathResult("ParametricCurve", None,
                                      GridPushes(samples, 1), 0, <<>>),
                           s.calls)

compile_and_sample_parametric_surface(code, u_samples, v_samples) ==
    IF ~code.parses THEN Compiled(MathError("parse error"), 0)
    ELSE IF ~code.defined THEN Compiled(MathError("fx: function not found"), 0)
    ELSE IF code.arity # 2
         THEN Compiled(MathError(
                  "Functions fx, fy, fz must each take 2 arguments (u, v)"), 0)
    ELSE LET s == SampleCalls(code, 2, 3 * u_samples * v_samples)
         IN  IF ~s.ok THEN Compiled(MathError("fx error at (u, v)"), s.calls)
             ELSE Compiled(MathResult("ParametricSurface", None,
                                      GridPushes(u_samples, v_samples),
                                      GridPushes(u_samples, v_samples),
                                      parametric_surface_indices(u_samples,
                                                                 v_samples)),
                           s.calls)

\* the match of math_thread on a compile command
CompileCommand(cmd) ==
    IF cmd.op = "CompileSurface"
    THEN compile_and_sample_surface(cmd.code, cmd.a)
    ELSE IF cmd.op = "CompileParametricCurve"
    THEN compile_and_sample_parametric(cmd.code, cmd.a)
    ELSE compile_and_sample_parametric_surface(cmd.code, cmd.a, cmd.b)

\* ---- MathEngine (the control thread's side) --------------------------------
appMathVars == <<current_math_mesh, shown_mesh, math_last_error>>

MathSend(cmd) ==
    /\ Len(mcmdq) < MaxMathCmdQ
    /\ mcmdq' = Append(mcmdq, cmd)

SendCompile(cmd) ==
    /\ math_join = "no"
    /\ msent < MaxMathCmds
    /\ MathSend(cmd)
    /\ msent' = msent + 1
    /\ sent_cmds' = Append(sent_cmds, cmd)
    /\ UNCHANGED <<mres, mpc, mpending, math_engine_error, math_join, mdone,
                   appMathVars>>
    /\ UNCHANGED <<workerVars, loopVars, histVars, ctlVars, normVars,
                   overflow_checks, slotVars, twin, since_pause, rng_join,
                   statVars, surf, lat, atomics>>

compile_surface(code, resolution) ==
    SendCompile(CompileSurface(code, resolution))

compile_parametric_curve(code, samples) ==
    SendCompile(CompileParametricCurve(code, samples))

compile_parametric_surface(code, u_samples, v_samples) ==
    SendCompile(CompileParametricSurface(code, u_samples, v_samples))

math_stop ==
    /\ math_join = "no"
    /\ MathSend(MathStop)
    /\ UNCHANGED <<mres, mpc, mpending, math_engine_error, math_join, mdone,
                   msent, appMathVars>>
    /\ UNCHANGED <<workerVars, loopVars, histVars, ctlVars, normVars,
                   overflow_checks, slotVars, twin, since_pause, rng_join,auxVars>>

\* Drop for MathEngine: Stop is sent, then the thread is joined; rx_result
\* is dropped only after drop() has returned
drop_math_engine ==
    /\ math_join = "no"
    /\ MathSend(MathStop)
    /\ math_join' = "joining"
    /\ UNCHANGED <<mres, mpc, mpending, math_engine_error, mdone, msent,
                   appMathVars>>
    /\ UNCHANGED <<workerVars, loopVars, histVars, ctlVars, normVars,
                   overflow_checks, slotVars, twin, since_pause, rng_join,auxVars>>

join_math_thread ==
    /\ math_join = "joining"
    /\ mpc = "stopped"
    /\ math_join' = "joined"
    /\ UNCHANGED <<mcmdq, mres, mpc, mpending, math_engine_error, mdone, msent,
                   appMathVars>>
    /\ UNCHANGED <<workerVars, loopVars, histVars, ctlVars, normVars,
                   overflow_checks, slotVars, twin, since_pause, rng_join,auxVars>>

\* App::update_math, one turn of `while let Some(result) = try_recv_result()`
\* with an Error arm that also forgets the mesh
update_math_error_clears ==
    /\ math_join = "no"
    /\ mres # <<>>
    /\ mres' = Tail(mres)
    /\ IF Head(mres).kind = "Error"
       THEN /\ math_last_error' = Head(mres).err
            /\ current_math_mesh' = "None"
            /\ shown_mesh' = NoMathResult
       ELSE /\ current_math_mesh' = Head(mres).kind
            /\ shown_mesh' = Head(mres)
            /\ math_last_error' = None
    /\ UNCHANGED <<mcmdq, mpc, mpending, math_engine_error, math_join, mdone,
                   msent>>
    /\ UNCHANGED <<workerVars, loopVars, histVars, ctlVars, normVars,
                   overflow_checks, slotVars, twin, since_pause, rng_join,auxVars>>

\* App::update_math, one turn of `while let Some(result) = try_recv_result()`
update_math ==
    /\ math_join = "no"
    /\ mres # <<>>
    /\ mres' = Tail(mres)
    /\ IF Head(mres).kind = "Error"
       THEN /\ math_last_error' = Head(mres).err
            /\ UNCHANGED <<current_math_mesh, shown_mesh>>
       ELSE /\ current_math_mesh' = Head(mres).kind
            /\ shown_mesh' = Head(mres)
            /\ math_last_error' = None
    /\ UNCHANGED <<mcmdq, mpc, mpending, math_engine_error, math_join, mdone,
                   msent>>
    /\ UNCHANGED <<workerVars, loopVars, histVars, ctlVars, normVars,
                   overflow_checks, slotVars, twin, since_pause, rng_join,auxVars>>

\* ---- math_thread -----------------------------------------------------------
\* a compile command that leaves last_error alone when it succeeds
MathCompileKeepsError ==
    /\ mpc = "recv"
    /\ mcmdq # <<>>
    /\ Head(mcmdq).op # "Stop"
    /\ mcmdq' = Tail(mcmdq)
    /\ LET c == CompileCommand(Head(mcmdq))
       IN  /\ mpending' = [cmd |-> Head(mcmdq), res |-> c.res, calls |-> c.calls]
           /\ math_engine_error' = IF c.res.kind = "Error" THEN c.res.err
                                   ELSE math_engine_error
    /\ mpc' = "send"
    /\ UNCHANGED <<mres, math_join, mdone, msent, appMathVars>>
    /\ UNCHANGED <<workerVars, loopVars, histVars, ctlVars, normVars,
                   overflow_checks, slotVars, twin, since_pause, rng_join,auxVars>>

\* rx_cmd.recv() returns a compile command: the whole compile function runs
MathCompile ==
    /\ mpc = "recv"
    /\ mcmdq # <<>>
    /\ Head(mcmdq).op # "Stop"
    /\ mcmdq' = Tail(mcmdq)
    /\ LET c == CompileCommand(Head(mcmdq))
       IN  /\ mpending' = [cmd |-> Head(mcmdq), res |-> c.res, calls |-> c.calls]
           /\ math_engine_error' = IF c.res.kind = "Error" THEN c.res.err
                                   ELSE None
    /\ mpc' = "send"
    /\ UNCHANGED <<mres, math_join, mdone, msent, appMathVars>>
    /\ UNCHANGED <<workerVars, loopVars, histVars, ctlVars, normVars,
                   overflow_checks, slotVars, twin, since_pause, rng_join,auxVars>>

\* tx_result.send(..) returns: there was room in the result channel
MathSendResult ==
    /\ mpc = "send"
    /\ Len(mres) < RESULT_CAPACITY
    /\ mres' = Append(mres, mpending.res)
    /\ mdone' = Append(mdone, mpending)
    /\ mpc' = "recv"
    /\ UNCHANGED <<mcmdq, mpending, math_engine_error, math_join, msent,
                   appMathVars>>
    /\ UNCHANGED <<workerVars, loopVars, histVars, ctlVars, normVars,
                   overflow_checks, slotVars, twin, since_pause, rng_join,auxVars>>

MathOnStop ==
    /\ mpc = "recv"
    /\ mcmdq # <<>>
    /\ Head(mcmdq).op = "Stop"
    /\ mcmdq' = Tail(mcmdq)
    /\ mpc' = "stopped"
    /\ UNCHANGED <<mres, mpending, math_engine_error, math_join, mdone, msent,
                   appMathVars>>
    /\ UNCHANGED <<workerVars, loopVars, histVars, ctlVars, normVars,
                   overflow_checks, slotVars, twin, since_pause, rng_join,auxVars>>

MathWorkerStep ==
    \/ MathCompile
    \/ MathSendResult
    \/ MathOnStop

(***************************************************************************)
(* SpecMath: MathEngine from its construction, its owner (who compiles,    *)
(* drains results in update_math, stops and drops the engine) and          *)
(* math_thread, whose steps are weakly fair.                               *)
(***************************************************************************)
MathCodeGood(arity) == MathCode(TRUE, TRUE, arity, 0, "err")
MathCodeFailing(arity, fail_at) == MathCode(TRUE, TRUE, arity, fail_at, "err")
MathCodeSyntax == MathCode(FALSE, FALSE, 0, 0, "err")
MathCodeUndefined == MathCode(TRUE, FALSE, 0, 0, "err")

\* the sampling calls at which the failing sources of the model fail
FailPoints == {1, MathSize * MathSize}

SurfaceCodes ==
    {MathCodeGood(2), MathCodeGood(1), MathCodeSyntax}
        \cup {MathCodeFailing(2, k) : k \in FailPoints}

CurveCodes ==
    {MathCodeGood(1), MathCodeUndefined,
     MathCode(TRUE, TRUE, 2, 0, "err"), MathCode(TRUE, TRUE, 2, 0, "value")}
        \cup {MathCodeFailing(1, k) : k \in FailPoints}

ParametricSurfaceCodes ==
    {MathCodeGood(2), MathCodeGood(1)}
        \cup {MathCodeFailing(2, k) : k \in FailPoints}

InitMath ==
    /\ EngineInit(DefaultBounds)
    /\ ThreadAt(None, FALSE, INITIAL_BATCH_SIZE, IntTerm(DEFAULT_STATE), <<>>, 0)
    /\ CtlInit
    /\ NormIdle
    /\ overflow_checks = FALSE

NextMath ==
    \/ \E code \in SurfaceCodes : compile_surface(code, MathSize)
    \/ \E code \in CurveCodes : compile_parametric_curve(code, MathSize)
    \/ \E code \in ParametricSurfaceCodes :
          compile_parametric_surface(code, MathSize, MathSize + 1)
    \/ math_stop
    \/ drop_math_engine
    \/ join_math_thread
    \/ update_math
    \/ MathWorkerStep

SpecMath ==
    /\ InitMath
    /\ [][NextMath]_vars
    /\ WF_vars(MathWorkerStep)
    /\ WF_vars(join_math_thread)

(***************************************************************************)
(* SpecMesh: math_thread compiling sources that evaluate everywhere, on    *)
(* grids of every size up to MaxRes, square or not.                        *)
(***************************************************************************)
NextMesh ==
    \/ \E r \in 2..MaxRes : compile_surface(MathCodeGood(2), r)
    \/ \E r \in 2..MaxRes, c \in 2..MaxRes :
          compile_parametric_surface(MathCodeGood(2), r, c)
    \/ update_math
    \/ MathCompile
    \/ MathSendResult

SpecMesh == InitMath /\ [][NextMesh]_vars

(***************************************************************************)
(* SpecStats: PerformanceStats.  The counters start as the worker leaves   *)
(* them after some batches, of which some met a full channel; the control  *)
(* thread stores the frame rate once a second and the worker stores its    *)
(* call rate and classifies the bottleneck once a second.                  *)
(***************************************************************************)
\* the classification with the drop ratio compared with >=
update_bottleneck_at_least(dropped, total, fps_now, rng_rate) ==
    IF total > 0 /\ dropped * 10 >= total THEN "GpuUpload"
    ELSE IF fps_now < 30 /\ dropped = 0 THEN "GpuRender"
    ELSE IF rng_rate < 1000000 THEN "CpuRng"
    ELSE "Balanced"

\* dropped as f64 / total as f64 > 0.1: both counts are exact in f64 and the
\* quotient is rounded to nearest, so it exceeds the double 0.1 exactly when
\* dropped / total > 1/10 (for counts below 2^50)
update_bottleneck(dropped, total, fps_now, rng_rate) ==
    IF total > 0 /\ dropped * 10 > total THEN "GpuUpload"
    ELSE IF fps_now < 30 /\ dropped = 0 THEN "GpuRender"
    ELSE IF rng_rate < 1000000 THEN "CpuRng"
    ELSE "Balanced"

FpsSamples == {0, 29, 30, 144}
RateSamples == {0, 999999, 1000000, 30000000}

\* App::update, once a second: the frame rate is stored
store_fps(f) ==
    /\ fps # f
    /\ fps' = f
    /\ UNCHANGED <<rng_calls_per_sec, bottleneck, surf, lat, sent_cmds,
                   atomics>>
    /\ UNCHANGED <<workerVars, loopVars, histVars, ctlVars, normVars,
                   overflow_checks, slotVars, twin, since_pause, mathVars,
                   rng_join>>

\* rng_thread, once a second: the rates are stored, then the bottleneck
StatsUpdate(calls_this_sec) ==
    /\ wpc = "cmds"
    /\ rng_calls_per_sec' = calls_this_sec
    /\ bottleneck' = update_bottleneck(dropped_batches, total_batches, fps,
                                       calls_this_sec)
    /\ UNCHANGED <<fps, surf, lat, sent_cmds, atomics>>
    /\ UNCHANGED <<workerVars, loopVars, histVars, ctlVars, normVars,
                   overflow_checks, slotVars, twin, since_pause, mathVars,
                   rng_join>>

\* the counters after `total` batches: a batch is dropped only when
\* CHANNEL_CAPACITY earlier ones are still waiting
StatCounts ==
    {c \in (0..MaxStatBatches) \X (0..MaxStatBatches) :
        c[2] <= Max(0, c[1] - CHANNEL_CAPACITY)}

InitStats ==
    /\ cmdq = <<>>
    /\ chan = <<>>
    /\ paused = FALSE
    /\ last_error = None
    /\ bounds = DefaultBounds
    /\ since_pause = 0
    /\ rng_join = "no"
    /\ AuxInit
    /\ rng_func = "inc"
    /\ running = TRUE
    /\ batch_size = INITIAL_BATCH_SIZE
    /\ current_state = IntTerm(DEFAULT_STATE)
    /\ wpc = "cmds"
    /\ state = current_state
    /\ batch = EmptyBatch(current_state)
    /\ iter = 0
    /\ bnd = bounds
    /\ start_size = batch_size
    /\ \E c \in StatCounts : total_batches = c[1] /\ dropped_batches = c[2]
    /\ produced = <<>>
    /\ received = <<>>
    /\ halted = FALSE
    /\ budget = 0
    /\ twin = [size |-> INITIAL_BATCH_SIZE, calls |-> 0, done |-> <<>>]
    /\ CtlInit
    /\ NormIdle
    /\ overflow_checks = FALSE

NextStats ==
    \/ \E f \in FpsSamples : store_fps(f)
    \/ \E calls \in RateSamples : StatsUpdate(calls)

SpecStats == InitStats /\ [][NextStats]_vars

(***************************************************************************)
(* SpecSurf: compile_and_sample_surface on functions with integer values   *)
(* at the grid points, one evaluator call or one vertex per step.  A slope *)
(* is kept as the pair <<numerator, denominator>> of the quotient the code *)
(* computes.                                                               *)
(***************************************************************************)
\* stand for f64::MAX and f64::MIN: beyond every value a function of the
\* model takes
F64_MAX == 1073741824
F64_MIN == -1073741824

\* the value of f(x, y)
SurfValue(fn, x, y) ==
    CASE fn = "saddle" -> x * x - y * y
      [] fn = "plane"  -> x + 2 * y
      [] fn = "flat"   -> 5
      [] OTHER         -> 16777217 + 2 * x

SurfFuncs == {"saddle", "plane", "flat", "wide"}
SurfRanges == {<<-3, 3>>, <<0, 12>>}

\* z_values[i][j]
ZAt(z_values, resolution, i, j) == z_values[i * resolution + j + 1]

\* compile_and_sample_surface up to the sampling loop
SurfBegin(fn, x_range, y_range, resolution) ==
    /\ surf.pc = "idle"
    /\ surf' = [surf EXCEPT
                  !.pc = "sample", !.fn = fn, !.resolution = resolution,
                  !.x0 = x_range[1], !.y0 = y_range[1],
                  !.dx = (x_range[2] - x_range[1]) \div (resolution - 1),
                  !.dy = (y_range[2] - y_range[1]) \div (resolution - 1),
                  !.z_values = [n \in 1..(resolution * resolution) |-> 0],
                  !.z_min = F64_MAX, !.z_max = F64_MIN]
    /\ UNCHANGED <<workerVars, loopVars, histVars, ctlVars, normVars,
                   overflow_checks, slotVars, twin, since_pause, mathVars,
                   rng_join, statVars, lat, sent_cmds, atomics>>

\* one turn of the sampling loop: f is called at the grid point (i, j)
SurfSample ==
    /\ surf.pc = "sample"
    /\ LET R == surf.resolution
           i == surf.k \div R
           j == surf.k % R
           z == SurfValue(surf.fn, surf.x0 + i * surf.dx, surf.y0 + j * surf.dy)
       IN  surf' = [surf EXCEPT
                      !.z_values = [@ EXCEPT ![surf.k + 1] = z],
                      !.z_min = Min(@, z),
                      !.z_max = Max(@, z),
                      !.k = IF surf.k + 1 = R * R THEN 0 ELSE surf.k + 1,
                      !.pc = IF surf.k + 1 = R * R THEN "build" ELSE "sample"]
    /\ UNCHANGED <<workerVars, loopVars, histVars, ctlVars, normVars,
                   overflow_checks, slotVars, twin, since_pause, mathVars,
                   rng_join, statVars, lat, sent_cmds, atomics>>

\* the slopes of the vertex (i, j), one-sided at the rim of the grid
SurfSlopesOneSided(z_values, R, dx, dy, i, j) ==
    [nx |-> IF i > 0 /\ i < R - 1
            THEN <<ZAt(z_values, R, i + 1, j) - ZAt(z_values, R, i - 1, j), 2 * dx>>
            ELSE IF i = 0
            THEN <<ZAt(z_values, R, 1, j) - ZAt(z_values, R, 0, j), dx>>
            ELSE <<ZAt(z_values, R, i, j) - ZAt(z_values, R, i - 1, j), dx>>,
     ny |-> IF j > 0 /\ j < R - 1
            THEN <<ZAt(z_values, R, i, j + 1) - ZAt(z_values, R, i, j - 1), 2 * dy>>
            ELSE IF j = 0
            THEN <<ZAt(z_values, R, i, 1) - ZAt(z_values, R, i, 0), dy>>
            ELSE <<ZAt(z_values, R, i, j) - ZAt(z_values, R, i, j - 1), dy>>]

\* nx and ny of the vertex (i, j)
SurfSlopes(z_values, R, dx, dy, i, j) ==
    [nx |-> IF i > 0 /\ i < R - 1
            THEN <<ZAt(z_values, R, i + 1, j) - ZAt(z_values, R, i - 1, j), 2 * dx>>
            ELSE <<0, 1>>,
     ny |-> IF j > 0 /\ j < R - 1
            THEN <<ZAt(z_values, R, i, j + 1) - ZAt(z_values, R, i, j - 1), 2 * dy>>
            ELSE <<0, 1>>]

\* one turn of the vertex loop
SurfVertex ==
    /\ surf.pc = "build"
    /\ LET R == surf.resolution
           i == surf.k \div R
           j == surf.k % R
       IN  surf' = [surf EXCEPT
                      !.slopes = Append(@, SurfSlopes(surf.z_values, R, surf.dx,
                                                      surf.dy, i, j)),
                      !.k = surf.k + 1,
                      !.pc = IF surf.k + 1 = R * R THEN "finish" ELSE "build"]
    /\ UNCHANGED <<workerVars, loopVars, histVars, ctlVars, normVars,
                   overflow_checks, slotVars, twin, since_pause, mathVars,
                   rng_join, statVars, lat, sent_cmds, atomics>>

\* SurfaceMesh with z_min and z_max taken as they are
SurfFinishExact ==
    /\ surf.pc = "finish"
    /\ surf' = [surf EXCEPT !.pc = "done",
                            !.mesh_z_min = surf.z_min,
                            !.mesh_z_max = surf.z_max]
    /\ UNCHANGED <<workerVars, loopVars, histVars, ctlVars, normVars,
                   overflow_checks, slotVars, twin, since_pause, mathVars,
                   rng_join, statVars, lat, sent_cmds, atomics>>

\* Ok(SurfaceMesh { .., z_min: z_min as f32, z_max: z_max as f32 })
SurfFinish ==
    /\ surf.pc = "finish"
    /\ surf' = [surf EXCEPT !.pc = "done",
                            !.mesh_z_min = ToF32(surf.z_min),
                            !.mesh_z_max = ToF32(surf.z_max)]
    /\ UNCHANGED <<workerVars, loopVars, histVars, ctlVars, normVars,
                   overflow_checks, slotVars, twin, since_pause, mathVars,
                   rng_join, statVars, lat, sent_cmds, atomics>>

NextSurf ==
    \/ \E fn \in SurfFuncs, x_range \in SurfRanges, y_range \in SurfRanges,
          resolution \in 2..MaxSurfRes :
          /\ (x_range[2] - x_range[1]) % (resolution - 1) = 0
          /\ (y_range[2] - y_range[1]) % (resolution - 1) = 0
          /\ SurfBegin(fn, x_range, y_range, resolution)
    \/ SurfSample
    \/ SurfVertex
    \/ SurfFinish

SpecSurf == InitMath /\ [][NextSurf]_vars

(***************************************************************************)
(* SpecLat: the running worker, batch after batch, with the time each      *)
(* batch took.  A run starts with batches of any timing and may settle,    *)
(* between two batches, into a regime where every batch is fast (below     *)
(* 80% of the target) or every batch is slow (above 120%).  No command is  *)
(* sent and no call fails; the worker's steps are weakly fair.             *)
(***************************************************************************)
LatSamples(regime) ==
    IF regime = "fast" THEN {0, 3999}
    ELSE IF regime = "slow" THEN {6001, 20000}
    ELSE ElapsedSamples

\* the batch is finished after elapsed_us microseconds
FinishBatchTimed ==
    /\ \E elapsed_us \in LatSamples(lat.regime) :
          /\ FinishBatchAt(elapsed_us)
          /\ lat' = [lat EXCEPT !.elapsed_us = elapsed_us,
                                !.before = batch_size, !.n = @ + 1]
    /\ UNCHANGED <<statVars, surf, sent_cmds, atomics>>

\* from here on every batch is fast, or every batch is slow
LatSettle ==
    /\ wpc = "cmds"
    /\ lat.regime = "any"
    /\ \E r \in {"fast", "slow"} : lat' = [lat EXCEPT !.regime = r]
    /\ budget' = MaxLatBatches
    /\ UNCHANGED <<workerVars, loopVars, produced, received, halted, ctlVars,
                   normVars, overflow_checks, slotVars, twin, since_pause,
                   mathVars, rng_join, statVars, surf, sent_cmds, atomics>>

InitLat ==
    /\ EngineInit(DefaultBounds)
    /\ ThreadAt("inc", TRUE, INITIAL_BATCH_SIZE, IntTerm(DEFAULT_STATE), <<>>,
                MaxLatMixed)
    /\ CtlInit
    /\ NormIdle
    /\ overflow_checks = FALSE

NextLat ==
    \/ LatSettle
    \/ StartBatch
    \/ LoopCompletes
    \/ FinishBatchTimed
    \/ TrySend

SpecLat ==
    /\ InitLat
    /\ [][NextLat]_vars
    /\ WF_vars(StartBatch)
    /\ WF_vars(LoopCompletes)
    /\ WF_vars(FinishBatchTimed)
    /\ WF_vars(TrySend)

(***************************************************************************)
(* SpecOrder: the worker from construction and the control thread, which   *)
(* sends UpdateCode, Reset and SetSeed in any order and at any moment of   *)
(* the worker's loop, so that one, two or three commands wait on the       *)
(* channel when the worker comes to its drain.  Every command sent is      *)
(* recorded.                                                               *)
(***************************************************************************)
OrderSeed == 7
OrderCmds ==
    {[op |-> "UpdateCode", code |-> CodeInc],
     [op |-> "UpdateCode", code |-> CodeSyntax],
     [op |-> "Reset"],
     [op |-> "SetSeed", seed |-> OrderSeed]}

\* handle_ui_actions: update_code, reset or set_seed puts its command on the
\* unbounded channel
ui_send ==
    /\ Len(sent_cmds) < MaxOrderCmds
    /\ \E cmd \in OrderCmds :
          /\ cmdq' = Append(cmdq, cmd)
          /\ sent_cmds' = Append(sent_cmds, cmd)
    /\ UNCHANGED <<chan, paused, last_error, bounds, rng_func, current_state,
                   batch_size, running, total_batches, dropped_batches, wpc,
                   loopVars, histVars, ctlVars, normVars, overflow_checks,
                   slotVars, twin, since_pause, mathVars, rng_join, statVars,
                   surf, lat, atomics>>

InitOrder ==
    /\ EngineInit(DefaultBounds)
    /\ ThreadAt(None, FALSE, INITIAL_BATCH_SIZE, IntTerm(DEFAULT_STATE), <<>>,
                MaxOrderBatches)
    /\ CtlInit
    /\ NormIdle
    /\ overflow_checks = FALSE

NextOrder ==
    \/ ui_send
    \/ OnUpdateCode
    \/ OnReset
    \/ OnSetSeed
    \/ Sleep
    \/ StartBatch
    \/ LoopCompletes
    \/ FinishBatch
    \/ TrySend

SpecOrder == InitOrder /\ [][NextOrder]_vars

(***************************************************************************)
(* SpecHold: the worker paused after its first batch (pause() was called   *)
(* and Pause drained), and the control thread, which sends UpdateCode,     *)
(* Reset and SetSeed and calls resume() at any moment.                     *)
(***************************************************************************)
HeldWorker == AfterRun(1, 3999)

InitHold ==
    /\ cmdq = <<>>
    /\ chan = <<>>
    /\ paused = TRUE
    /\ last_error = None
    /\ bounds = DefaultBounds
    /\ dropped_batches = 0
    /\ since_pause = 0
    /\ rng_join = "no"
    /\ AuxInit
    /\ ThreadAt("inc", TRUE, HeldWorker.size,
                AfterCalls(IntTerm(DEFAULT_STATE), HeldWorker.calls),
                HeldWorker.done, MaxOrderBatches)
    /\ CtlInit
    /\ NormIdle
    /\ overflow_checks = FALSE

NextHold ==
    \/ ui_send
    \/ resume
    \/ OnUpdateCode
    \/ OnReset
    \/ OnSetSeed
    \/ OnResume
    \/ Sleep
    \/ StartBatch
    \/ LoopCompletes
    \/ FinishBatch
    \/ TrySend

SpecHold == InitHold /\ [][NextHold]_vars

(***************************************************************************)
(* SpecCount: the worker from the state where the points channel is full:  *)
(* CHANNEL_CAPACITY batches completed, none taken yet.  The owner sends    *)
(* commands, pauses and resumes, and takes batches at any pace; after a    *)
(* batch the worker may take the statistics snapshot.                      *)
(***************************************************************************)
FullWorker == AfterRun(CHANNEL_CAPACITY, 3999)

InitCount ==
    /\ cmdq = <<>>
    /\ chan = [i \in 1..Len(FullWorker.done) |->
                  [id |-> i, data |-> FullWorker.done[i]]]
    /\ paused = FALSE
    /\ last_error = None
    /\ bounds = DefaultBounds
    /\ dropped_batches = 0
    /\ since_pause = 0
    /\ rng_join = "no"
    /\ AuxInit
    /\ rng_func = "inc"
    /\ running = TRUE
    /\ batch_size = FullWorker.size
    /\ current_state = AfterCalls(IntTerm(DEFAULT_STATE), FullWorker.calls)
    /\ wpc = "cmds"
    /\ state = current_state
    /\ batch = EmptyBatch(current_state)
    /\ iter = 0
    /\ bnd = bounds
    /\ start_size = batch_size
    /\ total_batches = Len(FullWorker.done)
    /\ produced = FullWorker.done
    /\ received = <<>>
    /\ halted = FALSE
    /\ budget = MaxCountBatches
    /\ twin = [size |-> INITIAL_BATCH_SIZE, calls |-> 0, done |-> <<>>]
    /\ CtlInit
    /\ NormIdle
    /\ overflow_checks = FALSE

NextCount ==
    \/ ui_send
    \/ pause
    \/ resume
    \/ try_recv_batch
    \/ OnUpdateCode
    \/ OnReset
    \/ OnSetSeed
    \/ OnPause
    \/ OnResume
    \/ Sleep
    \/ StartBatch
    \/ LoopCompletes
    \/ FinishBatch
    \/ TrySend
    \/ StatsUpdate(30000000)

SpecCount == InitCount /\ [][NextCount]_vars

(***************************************************************************)
(* SpecTwin: two independent runs of the worker on the same compiled       *)
(* recurrence (one that never fails), seed and bounds.  The first run is   *)
(* the worker itself, paused and resumed by its owner and drained by the   *)
(* consumer; of the second run only the batches are kept: it completes     *)
(* whole batches, each with a latency of its own.                          *)
(***************************************************************************)
\* the second run completes a batch
TwinBatch ==
    /\ Len(twin.done) < MaxTwinBatches
    /\ \E elapsed_us \in ElapsedSamples : twin' = AfterBatch(twin, elapsed_us)
    /\ UNCHANGED <<workerVars, loopVars, histVars, ctlVars, normVars,
                   overflow_checks, slotVars, since_pause, mathVars,rng_join,auxVars>>

InitTwin ==
    /\ EngineInit(DefaultBounds)
    /\ ThreadAt("inc", TRUE, INITIAL_BATCH_SIZE, IntTerm(DEFAULT_STATE), <<>>,
                MaxTwinBatches)
    /\ CtlInit
    /\ NormIdle
    /\ overflow_checks = FALSE

NextTwin ==
    \/ pause
    \/ resume
    \/ try_recv_batch
    \/ OnPause
    \/ OnResume
    \/ Sleep
    \/ StartBatch
    \/ LoopCompletes
    \/ FinishBatch
    \/ TrySend
    \/ TwinBatch

SpecTwin == InitTwin /\ [][NextTwin]_vars

(***************************************************************************)
(* SpecGen: the batch loop on concrete recurrences.  The worker is         *)
(* running; batch sizes are small, and the controller is                   *)
(* abstracted: after a batch the size is any size the model runs.          *)
(***************************************************************************)
Recurrence(kind, fail_at, msg) == [kind |-> kind, fail_at |-> fail_at, msg |-> msg]

\* the compiled functions, by name: rng(state) = state + 1, the same
\* raising an error at one state, rng(state) = -state - 1, and a recurrence
\* returning a float
Recurrences ==
    [inc    |-> Recurrence("inc", 0, None),
     fail0  |-> Recurrence("inc_fail", 0, "division by zero"),
     fail1  |-> Recurrence("inc_fail", 1, "division by zero"),
     fail2  |-> Recurrence("inc_fail", 2, "index out of bounds"),
     fail4  |-> Recurrence("inc_fail", 4, "index out of bounds"),
     fail11 |-> Recurrence("inc_fail", 11, "numeric overflow"),
     flip   |-> Recurrence("flip", 0, None),
     float  |-> Recurrence("float", 0, None)]
GenFuncs == DOMAIN Recurrences
GenSeeds == {0, 7}
BoundsSamples == {DefaultBounds, <<0, 10, -5, 5, 3, 3>>}

\* Value::int(n), and a float: the one Value that is no integer
IntValue(n) == [ty |-> "int", int |-> n]
FloatValue == [ty |-> "float", int |-> 0]

\* func.call(vm, &[v])
Call(func, v) ==
    LET f == Recurrences[func]
    IN  IF f.kind = "float" THEN Ok(FloatValue)
        ELSE IF f.kind = "flip" THEN Ok(IntValue(0 - v.int - 1))
        ELSE IF f.kind = "inc_fail" /\ v.int = f.fail_at THEN Err(f.msg)
        ELSE Ok(IntValue(v.int + 1))

\* v.as_int().unwrap_or(0)
AsIntOr0(v) == IF v.ty = "int" THEN ToI64(v.int) ELSE ToI64(0)

\* a failed call also commits the state reached so far
CallFailedCommits(e, partial) ==
    /\ last_error' = e
    /\ running' = FALSE
    /\ halted' = TRUE
    /\ batch' = [batch EXCEPT !.data = partial, !.len = Len(partial)]
    /\ wpc' = "cmds"
    /\ current_state' = state
    /\ UNCHANGED <<state, iter>>

\* a failed call hands what the batch holds so far to the channel
CallFailedSends(e, partial) ==
    /\ last_error' = e
    /\ running' = FALSE
    /\ halted' = TRUE
    /\ batch' = [batch EXCEPT !.data = partial, !.len = Len(partial)]
    /\ wpc' = "send"
    /\ UNCHANGED <<state, iter, current_state>>

\* the error branch of a call: the message is recorded, the loop is left
\* and the outer loop continued
CallFailed(e, partial) ==
    /\ last_error' = e
    /\ running' = FALSE
    /\ halted' = TRUE
    /\ batch' = [batch EXCEPT !.data = partial, !.len = Len(partial)]
    /\ wpc' = "cmds"
    /\ UNCHANGED <<state, iter, current_state>>

\* the state carried to the next iteration is the second call's result
NextIterationState(x_state, y_state, z_state) == y_state

\* state = z_state
IterationState(x_state, y_state, z_state) == z_state

\* one iteration of `for _ in 0..batch_size`
LoopIteration ==
    /\ wpc = "loop"
    /\ iter < batch_size
    /\ LET x_result == Call(rng_func, state)
       IN  IF ~x_result.ok THEN CallFailed(x_result.err, batch.data)
           ELSE
           LET x_state == x_result.val
               b1 == Append(batch.data,
                            normalize_value(AsIntOr0(x_state), bnd[1], bnd[2]))
               y_result == Call(rng_func, x_state)
           IN  IF ~y_result.ok THEN CallFailed(y_result.err, b1)
               ELSE
               LET y_state == y_result.val
                   b2 == Append(b1, normalize_value(AsIntOr0(y_state), bnd[3], bnd[4]))
                   z_result == Call(rng_func, y_state)
               IN  IF ~z_result.ok THEN CallFailed(z_result.err, b2)
                   ELSE
                   LET z_state == z_result.val
                       b3 == Append(b2, normalize_value(AsIntOr0(z_state),
                                                        bnd[5], bnd[6]))
                   IN  /\ batch' = [batch EXCEPT !.data = b3, !.len = Len(b3)]
                       /\ state' = IterationState(x_state, y_state, z_state)
                       /\ iter' = iter + 1
                       /\ UNCHANGED <<last_error, running, halted, wpc,
                                      current_state>>
    /\ UNCHANGED <<cmdq, chan, paused, bounds, rng_func, batch_size,
                   total_batches, dropped_batches, bnd, start_size, produced,
                   received, budget, notWorker>>

\* the loop has run batch_size times: the state is committed and the batch
\* counted; the size for the next batch is any the model runs
FinishBatchAnySize ==
    /\ wpc = "loop"
    /\ iter = batch_size
    /\ current_state' = state
    /\ batch_size' \in 1..MaxIter
    /\ total_batches' = total_batches + 1
    /\ produced' = Append(produced, batch)
    /\ since_pause' = IF paused THEN since_pause + 1 ELSE since_pause
    /\ wpc' = "send"
    /\ UNCHANGED <<cmdq, chan, paused, last_error, bounds, rng_func, running,
                   dropped_batches, loopVars, received, halted, budget,
                   ctlVars, normVars, overflow_checks, slotVars, twin,
                   mathVars,rng_join,auxVars>>

InitGen ==
    /\ \E b \in BoundsSamples : EngineInit(b)
    /\ \E f \in GenFuncs, n \in 1..MaxIter, seed \in GenSeeds :
          ThreadAt(f, TRUE, n, IntValue(seed), <<>>, MaxGenBatches)
    /\ CtlInit
    /\ NormIdle
    /\ overflow_checks = FALSE

NextGen ==
    \/ try_recv_batch
    \/ StartBatch
    \/ LoopIteration
    \/ FinishBatchAnySize
    \/ TrySend
    \/ Sleep

SpecGen == InitGen /\ [][NextGen]_vars

(***************************************************************************)
(* SpecBounds: AtomicBounds field by field.  bounds.set() is six relaxed   *)
(* stores and the start of a batch six relaxed loads; the two threads      *)
(* interleave freely, and a load returns the latest store of its field or  *)
(* an earlier one that is not older than what the worker has seen of that  *)
(* field.  The batch loop runs on rng(state) = state + 1.                  *)
(***************************************************************************)
SetSamples == {<<0, 10, -5, 5, 3, 3>>, <<-7, 7, -70, 70, -700, 700>>}

\* bounds.set(..) is called: the six values are passed
bounds_set ==
    /\ atomics.sk = 6
    /\ atomics.sets < MaxBoundSets
    /\ \E new \in SetSamples :
          atomics' = [atomics EXCEPT !.sk = 0, !.new = new, !.sets = @ + 1,
                           !.passed = [i \in 1..6 |-> @[i] \cup {new[i]}]]
    /\ UNCHANGED <<workerVars, loopVars, histVars, ctlVars, normVars,
                   overflow_checks, slotVars, twin, since_pause, mathVars,
                   rng_join, statVars, surf, lat, sent_cmds>>

\* the next store of set() goes to the field after the one it is meant for
bounds_store_shifted ==
    /\ atomics.sk < 6
    /\ LET i == ((atomics.sk + 1) % 6) + 1
           v == atomics.new[atomics.sk + 1]
       IN  /\ bounds' = [bounds EXCEPT ![i] = v]
           /\ atomics' = [atomics EXCEPT !.sk = @ + 1,
                               !.stores = [@ EXCEPT ![i] = Append(@, v)]]
    /\ UNCHANGED <<cmdq, chan, paused, last_error, rng_func, current_state,
                   batch_size, running, total_batches, dropped_batches, wpc,
                   loopVars, histVars, ctlVars, normVars, overflow_checks,
                   slotVars, twin, since_pause, mathVars, rng_join, statVars,
                   surf, lat, sent_cmds>>

\* the next store of set(): self.<field>.store(<field>, Relaxed)
bounds_store ==
    /\ atomics.sk < 6
    /\ LET i == atomics.sk + 1
           v == atomics.new[atomics.sk + 1]
       IN  /\ bounds' = [bounds EXCEPT ![i] = v]
           /\ atomics' = [atomics EXCEPT !.sk = @ + 1,
                               !.stores = [@ EXCEPT ![i] = Append(@, v)]]
    /\ UNCHANGED <<cmdq, chan, paused, last_error, rng_func, current_state,
                   batch_size, running, total_batches, dropped_batches, wpc,
                   loopVars, histVars, ctlVars, normVars, overflow_checks,
                   slotVars, twin, since_pause, mathVars, rng_join, statVars,
                   surf, lat, sent_cmds>>

\* the worker passes the gate and comes to the six loads
BeginLoads ==
    /\ wpc = "cmds"
    /\ cmdq = <<>>
    /\ running /\ ~paused
    /\ rng_func # None
    /\ budget > 0
    /\ budget' = budget - 1
    /\ atomics' = [atomics EXCEPT !.k = 0]
    /\ wpc' = "load"
    /\ UNCHANGED <<cmdq, chan, paused, last_error, bounds, rng_func,
                   current_state, batch_size, running, total_batches,
                   dropped_batches, loopVars, produced, received, halted,
                   ctlVars, normVars, overflow_checks, slotVars, twin,
                   since_pause, mathVars, rng_join, statVars, surf, lat,
                   sent_cmds>>

\* the next load: bounds.<field>.load(Relaxed); after the sixth the batch
\* and the loop's state are set up
LoadBound ==
    /\ wpc = "load"
    /\ LET i == atomics.k + 1
       IN  \E n \in atomics.seen[i]..Len(atomics.stores[i]) :
              /\ bnd' = [bnd EXCEPT ![i] = atomics.stores[i][n]]
              /\ atomics' = [atomics EXCEPT !.k = i, !.seen = [@ EXCEPT ![i] = n]]
    /\ IF atomics.k + 1 = 6
       THEN /\ batch' = EmptyBatch(current_state)
            /\ state' = current_state
            /\ iter' = 0
            /\ start_size' = batch_size
            /\ wpc' = "loop"
       ELSE UNCHANGED <<batch, state, iter, start_size, wpc>>
    /\ UNCHANGED <<cmdq, chan, paused, last_error, bounds, rng_func,
                   current_state, batch_size, running, total_batches,
                   dropped_batches, histVars, ctlVars, normVars,
                   overflow_checks, slotVars, twin, since_pause, mathVars,
                   rng_join, statVars, surf, lat, sent_cmds>>

InitBounds ==
    /\ EngineInit(DefaultBounds)
    /\ ThreadAt("inc", TRUE, MaxIter, IntValue(0), <<>>, MaxGenBatches)
    /\ CtlInit
    /\ NormIdle
    /\ overflow_checks = FALSE

NextBounds ==
    \/ bounds_set
    \/ bounds_store
    \/ BeginLoads
    \/ LoadBound
    \/ LoopIteration
    \/ FinishBatchAnySize
    \/ TrySend

SpecBounds == InitBounds /\ [][NextBounds]_vars

(***************************************************************************)
(* SpecCtl: the control thread's frame in Rng mode, beside the running     *)
(* worker.  A frame is update_rng (the bounds, the drain of the channel    *)
(* with append and evict, the upload), then the side panel, then           *)
(* handle_ui_actions.  A window is the sequence of its segments: floats    *)
(* from+1..to of batch id.                                                 *)
(***************************************************************************)
RECURSIVE WinLen(_)
\* Vec::len
WinLen(w) == IF w = <<>> THEN 0 ELSE (Head(w).to - Head(w).from) + WinLen(Tail(w))

RECURSIVE DrainFront(_, _)
\* Vec::drain(0..n), n < len
DrainFront(w, n) ==
    IF n = 0 \/ w = <<>> THEN w
    ELSE LET h == Head(w)
             l == h.to - h.from
         IN  IF n >= l THEN DrainFront(Tail(w), n - l)
             ELSE <<[h EXCEPT !.from = h.from + n]>> \o Tail(w)

\* eviction that drains one float more than the overflow
AppendEvictOneMore(acc, b, max) ==
    LET n == b.data.len
        len == WinLen(acc)
        overflow == ((len + n) - max) + 1
        kept == IF len + n > max
                THEN IF overflow < len THEN DrainFront(acc, overflow) ELSE <<>>
                ELSE acc
    IN  Append(kept, [id |-> b.id, from |-> 0, to |-> n])

\* the append/evict step with the whole window evicted on any overflow
AppendEvictClears(acc, b, max) ==
    LET n == b.data.len
        len == WinLen(acc)
        kept == IF len + n > max THEN <<>> ELSE acc
    IN  Append(kept, [id |-> b.id, from |-> 0, to |-> n])

\* the append/evict step of update_rng on one window
AppendEvict(acc, b, max) ==
    LET n == b.data.len
        len == WinLen(acc)
        overflow == (len + n) - max
        kept == IF len + n > max
                THEN IF overflow < len THEN DrainFront(acc, overflow) ELSE <<>>
                ELSE acc
    IN  Append(kept, [id |-> b.id, from |-> 0, to |-> n])

\* an upload writes the slot the index names
NextBufferStays(cur) == cur % NUM_BUFFERS

\* the slot an upload writes skips one
NextBufferSkips(cur) == (cur + 2) % NUM_BUFFERS

\* let next_buffer = (self.current_buffer + 1) % NUM_BUFFERS
NextBuffer(cur) == (cur + 1) % NUM_BUFFERS

\* PointCloudBuffers::upload_3d with n floats
upload_3d(n) ==
    /\ upload_calls' = upload_calls + 1
    /\ IF n = 0
       THEN UNCHANGED <<current_buffer, points_count_3d, upload_writes,
                        buffers_3d>>
       ELSE LET next_buffer == NextBuffer(current_buffer)
                point_count == Min(n \div 3, MAX_POINTS_PER_BUFFER)
            IN  /\ buffers_3d' = [buffers_3d EXCEPT ![next_buffer] =
                                     [upload |-> upload_calls + 1,
                                      count |-> point_count]]
                /\ current_buffer' = next_buffer
                /\ points_count_3d' = point_count
                /\ upload_writes' = upload_writes + 1
    /\ UNCHANGED <<points_count_2d, buffers_2d>>

\* PointCloudBuffers::upload_2d with n floats
upload_2d(n) ==
    /\ upload_calls' = upload_calls + 1
    /\ IF n = 0
       THEN UNCHANGED <<current_buffer, points_count_2d, upload_writes,
                        buffers_2d>>
       ELSE LET next_buffer == NextBuffer(current_buffer)
                point_count == Min(n \div 3, MAX_POINTS_PER_BUFFER)
            IN  /\ buffers_2d' = [buffers_2d EXCEPT ![next_buffer] =
                                     [upload |-> upload_calls + 1,
                                      count |-> point_count]]
                /\ current_buffer' = next_buffer
                /\ points_count_2d' = point_count
                /\ upload_writes' = upload_writes + 1
    /\ UNCHANGED <<points_count_3d, buffers_3d>>

\* the settings the side panel is moved to: the max points slider (in
\* thousands) and the grid slider
MaxPointsK == {10, 1000}
GridSamples == {128, 512}

\* update_rng, up to the drain: the panel's bounds (left at their defaults
\* here) are stored
update_rng_begin ==
    /\ cpc = "frame"
    /\ upload_calls < MaxUploads
    /\ bounds' = DefaultBounds
    /\ cpc' = "drain"
    /\ UNCHANGED <<cmdq, chan, paused, last_error, rng_func, current_state,
                   batch_size, running, total_batches, dropped_batches, wpc,
                   loopVars, histVars, accumulated_points_3d,
                   accumulated_points_2d, max_points, grid_size, view_mode,
                   current_buffer, points_count_3d, points_count_2d,
                   upload_calls, upload_writes, normVars, overflow_checks, moreVars>>

\* one turn of `while let Some(batch) = try_recv_batch()`
DrainBatch ==
    /\ cpc = "drain"
    /\ chan # <<>>
    /\ chan' = Tail(chan)
    /\ received' = Append(received, Head(chan))
    /\ LET max_floats == Min(max_points, MaxPointsCeiling) * 3
           max_2d == grid_size * grid_size * 3
       IN  IF view_mode = "Mode3D"
           THEN /\ accumulated_points_3d'
                       = AppendEvict(accumulated_points_3d, Head(chan), max_floats)
                /\ UNCHANGED accumulated_points_2d
           ELSE /\ accumulated_points_2d'
                       = AppendEvict(accumulated_points_2d, Head(chan), max_2d)
                /\ UNCHANGED accumulated_points_3d
    /\ UNCHANGED <<cmdq, paused, last_error, bounds, rng_func, current_state,
                   batch_size, running, total_batches, dropped_batches, wpc,
                   loopVars, produced, halted, budget, max_points, grid_size,
                   view_mode, current_buffer, points_count_3d, points_count_2d,
                   cpc, upload_calls, upload_writes, normVars, overflow_checks, moreVars>>

\* the channel is empty: the window of the active mode is uploaded
Upload ==
    /\ cpc = "drain"
    /\ chan = <<>>
    /\ IF view_mode = "Mode3D"
       THEN upload_3d(WinLen(accumulated_points_3d))
       ELSE upload_2d((WinLen(accumulated_points_2d) \div 3) * 3)
    /\ cpc' = "ui"
    /\ UNCHANGED <<workerVars, loopVars, histVars, accumulated_points_3d,
                   accumulated_points_2d, max_points, grid_size, view_mode,
                   normVars, overflow_checks, twin, since_pause, mathVars,rng_join,auxVars>>

\* the VIEW and BOUNDS sections of the side panel: the mode labels, the
\* grid slider (2D mode only), the max points slider
draw_side_panel ==
    /\ cpc = "ui"
    /\ \E m \in {"Mode3D", "Mode2D"} :
          /\ view_mode' = m
          /\ IF m = "Mode2D"
             THEN grid_size' \in GridSamples \cup {grid_size}
             ELSE UNCHANGED grid_size
    /\ \E k \in MaxPointsK \cup {max_points \div 1000} : max_points' = k * 1000
    /\ cpc' = "actions"
    /\ UNCHANGED <<workerVars, loopVars, histVars, accumulated_points_3d,
                   accumulated_points_2d, current_buffer, points_count_3d,
                   points_count_2d, upload_calls, upload_writes, normVars,
                   overflow_checks, moreVars>>

\* handle_ui_actions: clear_points empties both windows
handle_ui_actions ==
    /\ cpc = "actions"
    /\ \E clear_points \in BOOLEAN :
          IF clear_points
          THEN accumulated_points_3d' = <<>> /\ accumulated_points_2d' = <<>>
          ELSE UNCHANGED <<accumulated_points_3d, accumulated_points_2d>>
    /\ cpc' = "frame"
    /\ UNCHANGED <<workerVars, loopVars, histVars, max_points, grid_size,
                   view_mode, current_buffer, points_count_3d, points_count_2d,
                   upload_calls, upload_writes, normVars, overflow_checks, moreVars>>

InitCtl ==
    /\ EngineInit(DefaultBounds)
    /\ ThreadAt("inc", TRUE, INITIAL_BATCH_SIZE, IntTerm(DEFAULT_STATE), <<>>,
                MaxCtlBatches)
    /\ CtlInit
    /\ NormIdle
    /\ overflow_checks = FALSE

NextCtl ==
    \/ StartBatch
    \/ LoopCompletes
    \/ LoopFails
    \/ FinishBatch
    \/ TrySend
    \/ Sleep
    \/ update_rng_begin
    \/ DrainBatch
    \/ Upload
    \/ draw_side_panel
    \/ handle_ui_actions

SpecCtl == InitCtl /\ [][NextCtl]_vars

(***************************************************************************)
(* SpecNorm: normalize_value applied to one raw value.  The raw value is   *)
(* any i64 with limbs from LimbSamples, the bounds one of NormBounds, the  *)
(* build with or without overflow checks.                                  *)
(***************************************************************************)
LimbSamples == {0, 1, 808, LimbTop - 1, LimbTop, LimbBase - 1}
NormBounds == {<<-500, 500>>, <<0, 1000>>, <<0, 1>>, <<-5, 5>>, <<100, 32868>>}

InitNorm ==
    /\ EngineInit(DefaultBounds)
    /\ ThreadAt(None, FALSE, INITIAL_BATCH_SIZE, IntTerm(DEFAULT_STATE), <<>>, 0)
    /\ CtlInit
    /\ nv_value \in LimbSamples \X LimbSamples \X LimbSamples \X LimbSamples
    /\ \E b \in NormBounds : nv_min = b[1] /\ nv_max = b[2]
    /\ nv_result = 0
    /\ nv_pc = "idle"
    /\ overflow_checks \in BOOLEAN

\* the call normalize_value(nv_value, nv_min, nv_max) returns
NormalizeReturns ==
    /\ nv_pc = "idle"
    /\ ~AbsPanics(nv_value)
    /\ nv_result' = normalize_value(nv_value, nv_min, nv_max)
    /\ nv_pc' = "done"
    /\ UNCHANGED <<workerVars, loopVars, histVars, ctlVars, nv_value, nv_min,
                   nv_max, overflow_checks, moreVars>>

\* the call panics in value.abs()
NormalizePanics ==
    /\ nv_pc = "idle"
    /\ AbsPanics(nv_value)
    /\ nv_pc' = "panicked"
    /\ UNCHANGED <<workerVars, loopVars, histVars, ctlVars, nv_value, nv_min,
                   nv_max, nv_result, overflow_checks, moreVars>>

NextNorm == NormalizeReturns \/ NormalizePanics

SpecNorm == InitNorm /\ [][NextNorm]_vars

(***************************************************************************)
(* Claims on the generation worker.                                        *)
(***************************************************************************)

\* C3: whatever the measured latencies and whatever commands are processed
\* in between, batch_size (and the size a batch was started with) stays
\* within [MIN_BATCH_SIZE, MAX_BATCH_SIZE].
BatchSizeInRange ==
    /\ batch_size \in MIN_BATCH_SIZE..MAX_BATCH_SIZE
    /\ start_size \in MIN_BATCH_SIZE..MAX_BATCH_SIZE

\* a fast batch has just been completed whose growth the ceiling cut off
BatchSizeClampedAtMax ==
    /\ wpc = "send"
    /\ batch_size = MAX_BATCH_SIZE
    /\ GrowF32(start_size) > MAX_BATCH_SIZE

\* C4: the channel never holds more than CHANNEL_CAPACITY batches; every
\* completed batch is in the channel, received or counted as dropped, and
\* only one of these; the send step can always be taken, and it drops the
\* batch, adding one to dropped_batches, exactly when the channel is full.
NonBlockingSend ==
    /\ [](Len(chan) <= CHANNEL_CAPACITY)
    /\ [](total_batches = Len(received) + Len(chan) + dropped_batches
                          + (IF wpc = "send" THEN 1 ELSE 0))
    /\ [](wpc = "send" => ENABLED TrySend)
    /\ [][wpc = "send" /\ wpc' # "send" =>
            IF Len(chan) = CHANNEL_CAPACITY
            THEN chan' = chan /\ dropped_batches' = dropped_batches + 1
            ELSE /\ chan' = Append(chan, [id |-> total_batches, data |-> batch])
                 /\ dropped_batches' = dropped_batches]_vars

\* a batch has been dropped on a full channel
BatchDroppedOnFull ==
    /\ dropped_batches > 0
    /\ Len(chan) = CHANNEL_CAPACITY
    /\ wpc = "cmds"

\* C5: what try_recv_batch has returned is a subsequence of what the worker
\* produced, in production order: each received batch is the produced batch
\* of its number, and the numbers increase strictly.
InOrderDelivery ==
    \A i \in 1..Len(received) :
        /\ received[i].id \in 1..Len(produced)
        /\ received[i].data = produced[received[i].id]
        /\ \A j \in 1..Len(received) : i < j => received[i].id < received[j].id

\* batches were received around one that was dropped
ReceivedAcrossDrop ==
    \E i \in 1..(Len(received) - 1) : received[i + 1].id > received[i].id + 1

\* C7: from a runtime error until an UpdateCode compiles, the worker is not
\* running, has no batch in progress and completes none, whatever Reset,
\* SetSeed, Pause and Resume it processes; the UpdateCode that compiles sets
\* it running again.
HaltedUntilRecompiled ==
    /\ [](halted => ~running /\ wpc \in {"cmds", "stopped"})
    /\ [][halted => total_batches' = total_batches /\ produced' = produced]_vars
    /\ [][halted /\ ~halted' => running' /\ rng_func' # None]_vars

\* the first batch started failed, an UpdateCode compiled, and the second
\* batch started is being sent
BatchAfterRecompile ==
    /\ wpc = "send"
    /\ total_batches = 1
    /\ budget = MaxBatches - 2
    /\ ~halted


(***************************************************************************)
(* Claims on the batch loop.                                               *)
(***************************************************************************)
\* the error of the first of an iteration's three calls that fails, None
\* when all three succeed
FirstError(func, s) ==
    LET x == Call(func, s)
    IN  IF ~x.ok THEN x.err
        ELSE LET y == Call(func, x.val)
             IN  IF ~y.ok THEN y.err
                 ELSE LET z == Call(func, y.val)
                      IN  IF ~z.ok THEN z.err ELSE None

RECURSIVE Iterate(_, _, _)
\* rng applied k times to v
Iterate(func, v, k) ==
    IF k = 0 THEN v ELSE Iterate(func, Call(func, v).val, k - 1)

\* C6: when any of the three calls of an iteration fails, last_error is
\* set to the evaluator's message and the carried state is not advanced:
\* after the failure it equals the value it had when the batch started.
ErrorKeepsBatchStartState ==
    /\ [][(wpc = "loop" /\ iter < batch_size /\ <<wpc, iter>>' # <<wpc, iter>>)
            => IF FirstError(rng_func, state) = None
               THEN iter' = iter + 1 /\ wpc' = "loop"
               ELSE /\ wpc' = "cmds"
                    /\ last_error' = FirstError(rng_func, state)
                    /\ current_state' = batch.from
                    /\ current_state' = current_state
                    /\ ~running']_vars
    /\ [](halted => current_state = batch.from /\ last_error # None)

\* the second call of a batch's second iteration has failed
FailedInSecondIteration ==
    /\ halted
    /\ iter = 1
    /\ Len(batch.data) = 4
    /\ state # current_state
    /\ last_error = "index out of bounds"

\* C8: an iteration emits normalize(f(s)), normalize(f(f(s))),
\* normalize(f(f(f(s)))) with the x, y and z bounds and carries f(f(f(s)))
\* on; a batch starts from the state the batch before it ended with.  With
\* f(s) = s + 1, seed 0 and bounds -500..500 the first batch starts
\* (-499, -498, -497), (-496, -495, -494).
ThreeCallsPerPoint ==
    /\ [][(wpc = "loop" /\ iter' = iter + 1)
            => LET a == Call(rng_func, state).val
                   b == Call(rng_func, a).val
                   c == Call(rng_func, b).val
               IN  /\ batch'.data = batch.data \o
                         <<normalize_value(AsIntOr0(a), bnd[1], bnd[2]),
                           normalize_value(AsIntOr0(b), bnd[3], bnd[4]),
                           normalize_value(AsIntOr0(c), bnd[5], bnd[6])>>
                   /\ state' = c]_vars
    /\ [][(wpc = "cmds" /\ wpc' = "loop") => state' = current_state]_vars
    /\ [](\A i \in 2..Len(produced) :
             produced[i].from
                 = Iterate(rng_func, produced[i - 1].from, produced[i - 1].len))
    /\ [](\A i \in 1..Len(produced) :
             (/\ rng_func = "inc"
              /\ bounds = DefaultBounds
              /\ produced[i].from = IntValue(0)
              /\ produced[i].len >= 6)
             => SubSeq(produced[i].data, 1, 6) = <<-499, -498, -497, -496, -495, -494>>)

\* a second batch continues the sequence of a first batch of two points
SecondBatchContinues ==
    /\ rng_func = "inc"
    /\ bounds = DefaultBounds
    /\ Len(produced) = 2
    /\ produced[1].from = IntValue(0)
    /\ produced[1].data = <<-499, -498, -497, -496, -495, -494>>
    /\ produced[2].from = IntValue(6)
    /\ produced[2].data[1] = -493


(***************************************************************************)
(* Claims on normalization.                                                *)
(***************************************************************************)
\* C9: for bounds with min < max and every i64 raw value, the most
\* negative one included, normalize_value(raw, min, max) lies in
\* [min, min + max(max - min, 1)).
NormalizedInRange ==
    nv_pc # "idle"
        => /\ nv_pc = "done"
           /\ nv_min <= nv_result
           /\ nv_result < nv_min + Max(nv_max - nv_min, 1)


(***************************************************************************)
(* Claims on the control thread.                                           *)
(***************************************************************************)
\* min(max_points, 4,000,000) * 3 floats
Max3dFloats == Min(max_points, MaxPointsCeiling) * 3

\* grid_size * grid_size * 3 floats
Max2dFloats == grid_size * grid_size * 3

\* C1: after the append/evict step on a drained batch, the window of the
\* display mode does not exceed its configured maximum.
AppendKeepsWindowWithinMax ==
    [][Len(received') = Len(received) + 1
         => IF view_mode = "Mode3D"
            THEN WinLen(accumulated_points_3d') <= Max3dFloats
            ELSE WinLen(accumulated_points_2d') <= Max2dFloats]_vars

\* C2: at the end of every frame each window is within its currently
\* configured maximum, whatever the frame did: append, clear, mode switch,
\* a change of max points or of the grid size.
WindowsWithinMaxAtFrameEnd ==
    cpc = "frame"
        => /\ WinLen(accumulated_points_3d) <= Max3dFloats
           /\ WinLen(accumulated_points_2d) <= Max2dFloats

UploadSparesCurrentSlot ==
    [][\A slot \in 0..(NUM_BUFFERS - 1) :
          (buffers_3d'[slot] # buffers_3d[slot] \/ buffers_2d'[slot] # buffers_2d[slot])
              => slot # current_buffer]_vars

\* a 3D upload wrote slot 1, then a 2D upload wrote slot 2
UploadsOfBothShapes ==
    /\ buffers_3d[1].upload > 0
    /\ buffers_2d[2].upload > buffers_3d[1].upload
    /\ current_buffer = 2


(***************************************************************************)
(* Claims on two runs of the worker.                                       *)
(***************************************************************************)
\* C12 as stated: two runs on the same recurrence, seed, bounds and
\* commands produce identical batch sequences, whatever their latencies:
\* the batches both runs have produced are the same, one by one.
SameBatchSequences ==
    \A i \in 1..Min(Len(produced), Len(twin.done)) : produced[i] = twin.done[i]

\* the batches are consecutive segments of the recurrence's sequence from
\* the seed: each starts at f^k(seed), k the floats of the batches before
ConsecutiveSegments(batches) ==
    \A i \in 1..Len(batches) :
        /\ batches[i].from.base = DEFAULT_STATE
        /\ batches[i].from.calls
               = (IF i = 1 THEN 0
                  ELSE batches[i - 1].from.calls + batches[i - 1].len)
        /\ batches[i].len % 3 = 0

\* C12: two runs produce the same value stream, cut into batches whose
\* number and lengths follow each run's latencies: the batches of each run
\* are consecutive segments of the one sequence f(seed), f(f(seed)), ...
SameValueStream ==
    /\ ConsecutiveSegments(produced)
    /\ ConsecutiveSegments(twin.done)

\* both runs have produced two batches and their second batches differ in
\* length
SecondBatchesDiffer ==
    /\ Len(produced) >= 2
    /\ Len(twin.done) >= 2
    /\ produced[1] = twin.done[1]
    /\ produced[2].len # twin.done[2].len
    /\ produced[2].from = twin.done[2].from


(***************************************************************************)
(* Claims on the worker's commands.                                        *)
(***************************************************************************)
\* C13: processing UpdateCode clears last_error; a source that compiles
\* (rng exists, arity 1) replaces the function, resets the state to 12345
\* and batch_size to 10000 and leaves the worker running; any other source
\* leaves its message in last_error, no function, and the worker idle.
UpdateCodeOutcome ==
    [][(/\ wpc = "cmds"
        /\ cmdq # <<>>
        /\ Head(cmdq).op = "UpdateCode"
        /\ cmdq' = Tail(cmdq))
         => LET code == Head(cmdq).code
            IN  IF code.parses /\ code.has_rng /\ code.arity = 1
                THEN /\ last_error' = None
                     /\ rng_func' = code.fn
                     /\ current_state' = IntTerm(DEFAULT_STATE)
                     /\ batch_size' = INITIAL_BATCH_SIZE
                     /\ running'
                ELSE /\ last_error'
                           = (IF ~code.parses THEN "parse error"
                              ELSE IF ~code.has_rng THEN "function 'rng' not found"
                              ELSE "Function 'rng' must take exactly 1 argument")
                     /\ rng_func' = None
                     /\ ~running']_vars

\* a source with rng of arity 2 has replaced a recurrence that had
\* completed a batch and changed its batch size
FailedCompileAfterBatch ==
    /\ wpc = "cmds"
    /\ last_error = "Function 'rng' must take exactly 1 argument"
    /\ rng_func = None
    /\ ~running
    /\ total_batches >= 1
    /\ batch_size # INITIAL_BATCH_SIZE


\* C14: while the pause flag is set no batch starts; after pause() at most
\* one batch, the one in progress, is completed until resume() clears the
\* flag; and with the flag clear a running worker that has completed k
\* batches completes another one (or is paused again).
PausedStartsNoBatch ==
    /\ [][(wpc = "cmds" /\ wpc' = "loop") => ~paused]_vars
    /\ [](paused => since_pause <= 1)
    /\ \A k \in 0..(MaxPauseBatches - 1) :
          (~paused /\ running /\ total_batches = k /\ budget > 0)
              ~> (paused \/ total_batches > k)

\* the batch in progress at pause() has been completed and sent, and the
\* worker sleeps with the flag set
PausedAfterBatchInProgress ==
    /\ paused
    /\ since_pause = 1
    /\ wpc = "cmds"
    /\ cmdq = <<>>
    /\ budget > 0

(***************************************************************************)
(* C15: once Stop is in the command channel, sent by stop() or by Drop,    *)
(* the worker thread ends and the owner's join returns, whether the worker *)
(* is idle, running, paused or facing a full batch channel; the worker     *)
(* takes Stop only between two batches, and after it neither starts a      *)
(* batch, nor sends one, nor takes another command.                        *)
(***************************************************************************)
StopQueued == \E i \in 1..Len(cmdq) : cmdq[i].op = "Stop"

StopEndsWorker ==
    /\ [][(wpc # "stopped" /\ wpc' = "stopped")
              => (wpc = "cmds" /\ Head(cmdq).op = "Stop")]_vars
    /\ [][wpc = "stopped"
              => /\ wpc' = "stopped"
                 /\ total_batches' = total_batches
                 /\ produced' = produced
                 /\ dropped_batches' = dropped_batches
                 /\ Len(chan') <= Len(chan)
                 /\ Len(cmdq') >= Len(cmdq)
                 /\ UNCHANGED <<rng_func, current_state, batch_size, running,
                                last_error, loopVars>>]_vars
    /\ StopQueued ~> (wpc = "stopped")
    /\ (rng_join = "joining") ~> (rng_join = "joined")

JoinedWithFullChannel ==
    /\ rng_join = "joined"
    /\ Len(chan) = CHANNEL_CAPACITY
    /\ dropped_batches > 0
    /\ paused

(***************************************************************************)
(* C16: once MathEngine is dropped (Stop sent, then the thread joined),    *)
(* the mesh worker thread ends, whatever was compiled before and however   *)
(* many results were taken from the result channel.                        *)
(***************************************************************************)
DropEndsMathWorker == (math_join = "joining") ~> (mpc = "stopped")

(***************************************************************************)
(* C17: a compile command whose function has another arity than the one    *)
(* the command calls it with ends in an Error result without a single      *)
(* sampling call.                                                          *)
(***************************************************************************)
ExpectedArity(op) == IF op = "CompileParametricCurve" THEN 1 ELSE 2

ArityMismatch(cmd) ==
    /\ cmd.code.parses
    /\ cmd.code.defined
    /\ cmd.code.arity # ExpectedArity(cmd.op)

ArityRejectedBeforeSampling ==
    \A i \in 1..Len(mdone) :
        ArityMismatch(mdone[i].cmd)
            => (mdone[i].res.kind = "Error" /\ mdone[i].calls = 0)

(***************************************************************************)
(* C18: a compile command one of whose sampling calls fails puts exactly   *)
(* one result on the channel, an Error without any mesh data, and when     *)
(* update_math takes an Error the mesh kind and the uploaded mesh stay as  *)
(* they were and the message becomes math_last_error.                      *)
(***************************************************************************)
\* the sampling calls the command makes when none fails
SamplingCalls(cmd) ==
    IF cmd.op = "CompileSurface" THEN cmd.a * cmd.a
    ELSE IF cmd.op = "CompileParametricCurve" THEN 3 * cmd.a
    ELSE 3 * cmd.a * cmd.b

SamplingFails(cmd) ==
    /\ cmd.code.parses
    /\ cmd.code.defined
    /\ \/ /\ ~ArityMismatch(cmd)
          /\ cmd.code.fail_at \in 1..SamplingCalls(cmd)
       \/ /\ ArityMismatch(cmd)
          /\ cmd.op = "CompileParametricCurve"
          /\ cmd.code.badcall = "err"

CompileCommandsIn(q) == Len(SelectSeq(q, LAMBDA c : c.op # "Stop"))

EvalFailureGivesOneError ==
    /\ [](\A i \in 1..Len(mdone) :
            SamplingFails(mdone[i].cmd)
                => /\ mdone[i].res.kind = "Error"
                   /\ mdone[i].res.vertices = 0
                   /\ mdone[i].res.normals = 0
                   /\ mdone[i].res.indices = <<>>)
    /\ [](Len(mdone) + CompileCommandsIn(mcmdq)
              + (IF mpc = "send" THEN 1 ELSE 0) = msent)
    /\ [][(Len(mres') < Len(mres) /\ Head(mres).kind = "Error")
              => /\ current_math_mesh' = current_math_mesh
                 /\ shown_mesh' = shown_mesh
                 /\ math_last_error' = Head(mres).err]_vars

ErrorAfterMeshShown ==
    /\ mres = <<>>
    /\ Len(mdone) = 2
    /\ mdone[1].res.kind = "ParametricCurve"
    /\ mdone[2].cmd.op = "CompileSurface"
    /\ mdone[2].calls = MathSize * MathSize
    /\ mdone[2].res.kind = "Error"
    /\ current_math_mesh = "ParametricCurve"
    /\ shown_mesh = mdone[1].res
    /\ math_last_error = mdone[2].res.err

(***************************************************************************)
(* C19: the mesh of a height-field surface of resolution R has R*R         *)
(* vertices and 6*(R-1)^2 indices, every one of them in [0, R*R).          *)
(***************************************************************************)
SurfaceIndexBuffer ==
    \A i \in 1..Len(mdone) :
        mdone[i].res.kind = "Surface"
            => LET R == mdone[i].cmd.a
                   mesh == mdone[i].res
               IN  /\ mesh.vertices = 3 * (R * R)
                   /\ Len(mesh.indices) = 6 * ((R - 1) * (R - 1))
                   /\ \A k \in 1..Len(mesh.indices) :
                         mesh.indices[k] \in 0..(R * R - 1)

LargestSurfaceSent ==
    \E i \in 1..Len(mdone) :
        /\ mdone[i].res.kind = "Surface"
        /\ mdone[i].cmd.a = MaxRes
        /\ mdone[i].res.indices # <<>>

(***************************************************************************)
(* C20: the mesh of a parametric surface sampled on R x C points has R*C   *)
(* vertices, R*C normals and 2*(R-1)*(C-1) triangles, every index in       *)
(* [0, R*C), for R = C, R < C and R > C.                                   *)
(***************************************************************************)
ParametricSurfaceShape ==
    \A i \in 1..Len(mdone) :
        mdone[i].res.kind = "ParametricSurface"
            => LET R == mdone[i].cmd.a
                   C == mdone[i].cmd.b
                   mesh == mdone[i].res
               IN  /\ mesh.vertices = 3 * (R * C)
                   /\ mesh.normals = 3 * (R * C)
                   /\ Len(mesh.indices) = 3 * (2 * (R - 1) * (C - 1))
                   /\ \A k \in 1..Len(mesh.indices) :
                         mesh.indices[k] \in 0..(R * C - 1)

TallAndWideGridsSent ==
    /\ \E i \in 1..Len(mdone) :
          /\ mdone[i].res.kind = "ParametricSurface"
          /\ mdone[i].cmd.a > mdone[i].cmd.b
    /\ \E i \in 1..Len(mdone) :
          /\ mdone[i].res.kind = "ParametricSurface"
          /\ mdone[i].cmd.a < mdone[i].cmd.b

(***************************************************************************)
(* C21: whenever the worker classifies the bottleneck, the result is       *)
(* GpuUpload if more than a tenth of the batches were dropped, else        *)
(* GpuRender if the frame rate is below 30 and nothing was dropped, else   *)
(* CpuRng if the call rate is below 1,000,000 per second, else Balanced.   *)
(***************************************************************************)
BottleneckClassified ==
    [][<<rng_calls_per_sec, bottleneck>>' # <<rng_calls_per_sec, bottleneck>>
          => bottleneck' =
                IF dropped_batches * 10 > total_batches THEN "GpuUpload"
                ELSE IF fps < 30 /\ dropped_batches = 0 THEN "GpuRender"
                ELSE IF rng_calls_per_sec' < 1000000 THEN "CpuRng"
                ELSE "Balanced"]_vars

TenthDroppedIsNotUpload ==
    /\ total_batches = 10
    /\ dropped_batches = 1
    /\ fps = 29
    /\ rng_calls_per_sec = 999999
    /\ bottleneck = "CpuRng"

(***************************************************************************)
(* C22: the step that takes SetSeed(v) off the command channel makes v the *)
(* generator state and leaves the compiled function, the batch size, the   *)
(* running flag, last_error and the pause flag as they were.               *)
(***************************************************************************)
SetSeedOnlySetsState ==
    [][(cmdq # <<>> /\ Len(cmdq') < Len(cmdq) /\ Head(cmdq).op = "SetSeed")
          => /\ current_state' = IntTerm(Head(cmdq).seed)
             /\ UNCHANGED <<rng_func, batch_size, running, last_error,
                            paused>>]_vars

SeededAfterAdaptation ==
    /\ current_state \in {IntTerm(v) : v \in Seeds}
    /\ batch_size # INITIAL_BATCH_SIZE
    /\ rng_func # None
    /\ last_error # None
    /\ ~running

(***************************************************************************)
(* C23: the step that takes Reset off the command channel puts the         *)
(* generator state back to 12345 and the batch size back to 10000; the     *)
(* compiled function, the running flag, last_error and the pause flag stay *)
(* as they were.                                                           *)
(***************************************************************************)
ResetKeepsFunction ==
    [][(cmdq # <<>> /\ Len(cmdq') < Len(cmdq) /\ Head(cmdq).op = "Reset")
          => /\ current_state' = IntTerm(DEFAULT_STATE)
             /\ batch_size' = INITIAL_BATCH_SIZE
             /\ UNCHANGED <<rng_func, running, last_error, paused>>]_vars

ResetAfterRuntimeError ==
    /\ current_state = IntTerm(DEFAULT_STATE)
    /\ batch_size = INITIAL_BATCH_SIZE
    /\ total_batches > 0
    /\ rng_func # None
    /\ last_error = "runtime error"
    /\ ~running
    /\ paused

(***************************************************************************)
(* C24: the z_min and z_max of a finished surface mesh are the least and   *)
(* the greatest of the R*R values f takes at the grid points.              *)
(***************************************************************************)
\* the values of f at the grid points of the surface being compiled
SampledValues ==
    {SurfValue(surf.fn, surf.x0 + i * surf.dx, surf.y0 + j * surf.dy) :
        i \in 0..(surf.resolution - 1), j \in 0..(surf.resolution - 1)}

TrueMin == CHOOSE m \in SampledValues : \A v \in SampledValues : m <= v
TrueMax == CHOOSE m \in SampledValues : \A v \in SampledValues : m >= v

MeshZRangeIsTrueRange ==
    surf.pc = "done"
        => (surf.mesh_z_min = TrueMin /\ surf.mesh_z_max = TrueMax)

\* C24, as the code has it: z_min and z_max of the mesh are the least and
\* the greatest sampled value, each rounded to single precision; for
\* f(x, y) = x*x - y*y over [-3, 3] at resolution 3 they are -9 and 9.
MeshZRangeIsRoundedRange ==
    surf.pc = "done"
        => /\ surf.mesh_z_min = ToF32(TrueMin)
           /\ surf.mesh_z_max = ToF32(TrueMax)
           /\ (surf.fn = "saddle" /\ surf.resolution = 3 /\ surf.dx = 3
                   /\ surf.dy = 3 /\ surf.x0 = -3 /\ surf.y0 = -3)
                  => (surf.mesh_z_min = -9 /\ surf.mesh_z_max = 9)

RoundedMaxInMesh ==
    /\ surf.pc = "done"
    /\ surf.fn = "wide"
    /\ surf.resolution = 3
    /\ surf.mesh_z_max # surf.z_max
    /\ surf.z_max = TrueMax

(***************************************************************************)
(* C30: the slope a surface vertex normal is made of is, along each axis,  *)
(* the centered difference of the two neighbouring samples at an interior  *)
(* grid point and the one-sided difference with the one neighbour there is *)
(* in the first and last row and column.                                   *)
(***************************************************************************)
SameQuotient(a, b) == a[1] * b[2] = b[1] * a[2]

NormalSlopesAreDifferences ==
    \A n \in 1..Len(surf.slopes) :
        LET R == surf.resolution
            want == SurfSlopesOneSided(surf.z_values, R, surf.dx, surf.dy,
                                       (n - 1) \div R, (n - 1) % R)
        IN  /\ SameQuotient(surf.slopes[n].nx, want.nx)
            /\ SameQuotient(surf.slopes[n].ny, want.ny)

(***************************************************************************)
(* C25: after an upload the point count recorded for the shape uploaded is *)
(* the number of points supplied, or MAX_POINTS_PER_BUFFER if more were    *)
(* supplied.                                                               *)
(***************************************************************************)
UploadRecordsSuppliedCount ==
    [][upload_calls' = upload_calls + 1
          => IF view_mode = "Mode3D"
             THEN points_count_3d' =
                      Min(WinLen(accumulated_points_3d) \div 3,
                          MAX_POINTS_PER_BUFFER)
             ELSE points_count_2d' =
                      Min(WinLen(accumulated_points_2d) \div 3,
                          MAX_POINTS_PER_BUFFER)]_vars

(***************************************************************************)
(* C26: the controller moves batch_size only in the direction of the       *)
(* latency error: a batch faster than 80% of the target never decreases    *)
(* it, a batch slower than 120% never increases it, a batch in between     *)
(* leaves it unchanged; once every batch is fast, batch_size reaches       *)
(* MAX_BATCH_SIZE and stays there, and once every batch is slow it         *)
(* reaches MIN_BATCH_SIZE and stays there.                                 *)
(***************************************************************************)
AdaptFollowsLatency ==
    /\ [][lat'.n = lat.n + 1
            => IF lat'.elapsed_us < TARGET_BATCH_TIME_MS * 800
               THEN batch_size' >= batch_size
               ELSE IF lat'.elapsed_us > TARGET_BATCH_TIME_MS * 1200
               THEN batch_size' <= batch_size
               ELSE batch_size' = batch_size]_vars
    /\ (lat.regime = "fast") ~> [](batch_size = MAX_BATCH_SIZE)
    /\ (lat.regime = "slow") ~> [](batch_size = MIN_BATCH_SIZE)

\* a slow batch has left batch_size at the floor it had reached after the
\* run settled from a size other than the initial one
SlowRunRestsAtFloor ==
    /\ lat.regime = "slow"
    /\ lat.elapsed_us > TARGET_BATCH_TIME_MS * 1200
    /\ lat.before = MIN_BATCH_SIZE
    /\ batch_size = MIN_BATCH_SIZE
    /\ Len(produced) > 2
    /\ produced[2].len # 3 * INITIAL_BATCH_SIZE

RECURSIVE LastFloats(_, _)
\* the most recent k floats of a window, k <= WinLen(w)
LastFloats(w, k) ==
    IF k = 0 \/ w = <<>> THEN <<>>
    ELSE LET last == w[Len(w)]
             l == last.to - last.from
         IN  IF k <= l THEN <<[last EXCEPT !.from = last.to - k]>>
             ELSE Append(LastFloats(SubSeq(w, 1, Len(w) - 1), k - l), last)

\* the window after a batch of n floats is appended to a window acc whose
\* maximum is max: the most recent min(max, old length + n) floats
SlidingWindow(acc, b, max) ==
    LastFloats(Append(acc, [id |-> b.id, from |-> 0, to |-> b.data.len]),
               Min(max, WinLen(acc) + b.data.len))

\* C27: the accumulator is a FIFO sliding window: when the batch drained is
\* no longer than the configured maximum, the window after the append is
\* the most recent min(max, old length + batch length) floats of the old
\* window followed by the batch, in their order.
WindowIsFifo ==
    [][Len(received') = Len(received) + 1
         => LET b == Head(chan)
            IN  IF view_mode = "Mode3D"
                THEN b.data.len <= Max3dFloats
                        => accumulated_points_3d'
                              = SlidingWindow(accumulated_points_3d, b, Max3dFloats)
                ELSE b.data.len <= Max2dFloats
                        => accumulated_points_2d'
                              = SlidingWindow(accumulated_points_2d, b, Max2dFloats)]_vars

\* the 3D window holds the end of one batch and the whole of the next: the
\* start of the older batch was evicted
OldestFloatsEvicted ==
    /\ Len(accumulated_points_3d) = 2
    /\ accumulated_points_3d[1].from > 0
    /\ accumulated_points_3d[2].from = 0
    /\ WinLen(accumulated_points_3d) = Max3dFloats

(***************************************************************************)
(* Claims on the order of the commands.                                    *)
(***************************************************************************)
\* the last two commands sent are a and b, in this order
LastTwoSent(a, b) ==
    /\ Len(sent_cmds) >= 2
    /\ sent_cmds[Len(sent_cmds) - 1] = a
    /\ sent_cmds[Len(sent_cmds)] = b

\* the worker starts the first batch of the function
FirstBatchStarts == wpc = "cmds" /\ wpc' = "loop" /\ total_batches = 0

\* the commands still on the channel are the last ones sent, in their order
PendingInOrder ==
    /\ Len(cmdq) <= Len(sent_cmds)
    /\ cmdq = SubSeq(sent_cmds, Len(sent_cmds) - Len(cmdq) + 1, Len(sent_cmds))

\* C28 as stated: the worker drains the pending commands in the order they
\* were sent before it starts the next batch; a SetSeed(v) sent after
\* UpdateCode makes the first batch of the new function start from v, and a
\* SetSeed(v) sent before UpdateCode leaves it starting from 12345.
SeedSentAfterCodeStartsFirstBatch ==
    /\ []PendingInOrder
    /\ [][wpc = "cmds" /\ wpc' = "loop" => cmdq = <<>>]_vars
    /\ [](/\ Len(sent_cmds) >= 2
          /\ sent_cmds[1] = [op |-> "UpdateCode", code |-> CodeInc]
          /\ sent_cmds[2] = [op |-> "SetSeed", seed |-> OrderSeed]
          /\ Len(produced) >= 1
          => produced[1].from = IntTerm(OrderSeed))
    /\ [](/\ Len(sent_cmds) >= 2
          /\ sent_cmds[1] = [op |-> "SetSeed", seed |-> OrderSeed]
          /\ sent_cmds[2] = [op |-> "UpdateCode", code |-> CodeInc]
          /\ Len(produced) >= 1
          => produced[1].from = IntTerm(DEFAULT_STATE))

\* C28: the worker drains the pending commands in the order they were sent
\* before it starts the next batch; when the first batch of the function
\* starts, a SetSeed(v) sent last, after the UpdateCode, makes it start from
\* v, and an UpdateCode sent last, after a SetSeed(v), makes it start from
\* 12345.
DrainedInOrderBeforeBatch ==
    /\ []PendingInOrder
    /\ [][wpc = "cmds" /\ wpc' = "loop" => cmdq = <<>>]_vars
    /\ [][FirstBatchStarts
            => /\ LastTwoSent([op |-> "UpdateCode", code |-> CodeInc],
                              [op |-> "SetSeed", seed |-> OrderSeed])
                    => batch'.from = IntTerm(OrderSeed)
               /\ LastTwoSent([op |-> "SetSeed", seed |-> OrderSeed],
                              [op |-> "UpdateCode", code |-> CodeInc])
                    => batch'.from = IntTerm(DEFAULT_STATE)]_vars

\* UpdateCode and then SetSeed(7) were sent and drained, and the first batch
\* was generated from 7
FirstBatchFromSeed ==
    /\ sent_cmds = <<[op |-> "UpdateCode", code |-> CodeInc],
                     [op |-> "SetSeed", seed |-> OrderSeed]>>
    /\ Len(produced) = 1
    /\ produced[1].from = IntTerm(OrderSeed)

\* the kind of mesh a compile command asks for
RequestedKind(cmd) ==
    IF cmd.op = "CompileSurface" THEN "Surface"
    ELSE IF cmd.op = "CompileParametricCurve" THEN "ParametricCurve"
    ELSE "ParametricSurface"

\* C29: each compile command the mesh worker has processed has yielded
\* exactly one result, a mesh of the requested kind or an Error: the i-th
\* result sent is the result of the i-th command issued, and the results
\* waiting for try_recv_result are the last ones sent, in that order; once
\* a command is done the worker's last_error is None if it succeeded and
\* the message if it failed.
OneResultPerCommandInOrder ==
    /\ Len(mdone) <= Len(sent_cmds)
    /\ \A i \in 1..Len(mdone) :
          /\ mdone[i].cmd = sent_cmds[i]
          /\ mdone[i].res.kind \in {RequestedKind(sent_cmds[i]), "Error"}
    /\ Len(mres) <= Len(mdone)
    /\ \A i \in 1..Len(mres) :
          mres[i] = mdone[Len(mdone) - Len(mres) + i].res
    /\ (mpc # "send" /\ mdone # <<>>)
          => LET last == mdone[Len(mdone)].res
             IN  math_engine_error
                    = (IF last.kind = "Error" THEN last.err ELSE None)

\* a failed command and then a successful one: both results wait in the
\* channel, the Error first, and last_error is None again
ErrorThenMeshWaiting ==
    /\ Len(mdone) = 2
    /\ Len(mres) = 2
    /\ mres[1].kind = "Error"
    /\ mres[2].kind # "Error"
    /\ mpc = "recv"
    /\ math_engine_error = None

(***************************************************************************)
(* Claims on the batches the worker hands over.                            *)
(***************************************************************************)
\* the worker hands its batch to tx_points.try_send
HandsOver == wpc = "send" /\ wpc' = "cmds"

\* a call failed and the for loop was left
BatchAborted == wpc = "loop" /\ wpc' = "cmds"

\* C31: every batch handed to the channel, sent or counted as dropped, is
\* complete: its length is 3 times the batch_size in effect when the batch
\* started, a multiple of 3; a batch aborted by an evaluation error is not
\* sent and not counted in total_batches or dropped_batches.
HandedBatchesComplete ==
    /\ [][HandsOver
            => /\ Len(batch.data) = 3 * start_size
               /\ \/ /\ chan' = Append(chan, [id |-> total_batches, data |-> batch])
                     /\ dropped_batches' = dropped_batches
                  \/ /\ chan' = chan
                     /\ dropped_batches' = dropped_batches + 1]_vars
    /\ [][BatchAborted
            => /\ chan' = chan
               /\ total_batches' = total_batches
               /\ dropped_batches' = dropped_batches
               /\ produced' = produced]_vars
    /\ [](/\ \A i \in 1..Len(chan) : Len(chan[i].data.data) % 3 = 0
          /\ \A i \in 1..Len(received) : Len(received[i].data.data) % 3 = 0
          /\ Len(received) + Len(chan) + dropped_batches
                = total_batches - (IF wpc = "send" THEN 1 ELSE 0))

\* a batch of one point was handed over, the size became 2, and the next
\* batch was aborted at its second call with one float in it
PartialBatchAfterSentBatch ==
    /\ halted
    /\ Len(batch.data) = 1
    /\ total_batches = 1
    /\ Len(chan) + Len(received) = 1
    /\ produced[1].len = 3
    /\ start_size = 2
    /\ dropped_batches = 0

(***************************************************************************)
(* Claims on what the renderer draws.                                      *)
(***************************************************************************)
\* the upload step of the frame is done: render_3d or render_2d, by the
\* display mode, reads its slot and its count next
RenderReads == cpc = "ui"

\* C32: the slot rendering reads, buffers[current_buffer] of the shape
\* drawn, is the slot most recently written by an upload of that shape, and
\* the point count drawn is the count of that upload, whatever the
\* interleaving of upload_3d and upload_2d on the shared index.
RenderReadsLatestUpload ==
    RenderReads
        => LET bufs == IF view_mode = "Mode3D" THEN buffers_3d ELSE buffers_2d
               drawn == IF view_mode = "Mode3D" THEN points_count_3d
                        ELSE points_count_2d
           IN  /\ \A slot \in 0..(NUM_BUFFERS - 1) :
                      bufs[slot].upload <= bufs[current_buffer].upload
               /\ drawn = bufs[current_buffer].count

\* C33: after the upload step of a frame the number of points the renderer
\* draws for the display mode is min(points in that mode's window,
\* MAX_POINTS_PER_BUFFER); after clear_points with nothing generated since,
\* it is 0.
DrawnCountIsWindowCount ==
    RenderReads
        => IF view_mode = "Mode3D"
           THEN points_count_3d
                   = Min(WinLen(accumulated_points_3d) \div 3, MAX_POINTS_PER_BUFFER)
           ELSE points_count_2d
                   = Min(WinLen(accumulated_points_2d) \div 3, MAX_POINTS_PER_BUFFER)

(***************************************************************************)
(* Claims on the pause flag and the commands.                              *)
(***************************************************************************)
RECURSIVE AfterCommands(_, _)
\* the function, the state and the batch size the commands leave, taken in
\* order: UpdateCode installs the function with the default state and the
\* initial size, or removes the function; Reset restores the default state
\* and the initial size; SetSeed(v) sets the state
AfterCommands(w, cmds) ==
    IF cmds = <<>> THEN w
    ELSE LET c == Head(cmds)
             r == IF c.op = "UpdateCode" THEN compile_rng(c.code) ELSE Err("")
             w1 == IF c.op = "UpdateCode"
                   THEN IF r.ok
                        THEN [func |-> r.val, state |-> IntTerm(DEFAULT_STATE),
                              size |-> INITIAL_BATCH_SIZE]
                        ELSE [w EXCEPT !.func = None]
                   ELSE IF c.op = "Reset"
                   THEN [w EXCEPT !.state = IntTerm(DEFAULT_STATE),
                                  !.size = INITIAL_BATCH_SIZE]
                   ELSE IF c.op = "SetSeed"
                   THEN [w EXCEPT !.state = IntTerm(c.seed)]
                   ELSE w
         IN  AfterCommands(w1, Tail(cmds))

\* what the commands sent so far leave of the paused worker
HeldAfterCommands ==
    AfterCommands([func |-> "inc",
                   state |-> AfterCalls(IntTerm(DEFAULT_STATE), HeldWorker.calls),
                   size |-> HeldWorker.size], sent_cmds)

\* C34: the pause flag is independent of the commands: while it is set no
\* batch is started or produced, whatever UpdateCode, Reset and SetSeed the
\* worker processes meanwhile; the commands take effect all the same (the
\* function, the state and the batch size are those the commands leave),
\* and the first batch after resume() is generated with them.
PauseHoldsBatchesNotCommands ==
    /\ [][(wpc = "cmds" /\ wpc' = "loop") => ~paused]_vars
    /\ [](paused => total_batches = Len(HeldWorker.done) /\ wpc = "cmds")
    /\ []((cmdq = <<>> /\ total_batches = Len(HeldWorker.done) /\ wpc = "cmds")
            => /\ rng_func = HeldAfterCommands.func
               /\ current_state = HeldAfterCommands.state
               /\ batch_size = HeldAfterCommands.size)
    /\ [][(wpc = "cmds" /\ wpc' = "loop" /\ total_batches = Len(HeldWorker.done))
            => /\ rng_func = HeldAfterCommands.func
               /\ batch'.from = HeldAfterCommands.state
               /\ start_size' = HeldAfterCommands.size]_vars

\* SetSeed(7) was sent and processed with the flag set: the state is 7 and
\* no batch has been produced
SeededWhilePaused ==
    /\ paused
    /\ sent_cmds = <<[op |-> "SetSeed", seed |-> OrderSeed]>>
    /\ cmdq = <<>>
    /\ current_state = IntTerm(OrderSeed)
    /\ batch_size = HeldWorker.size
    /\ total_batches = Len(HeldWorker.done)

\* C35: between two turns of the worker's loop, running implies that a
\* compiled function is present and that last_error is None (a recorded
\* error, from a compilation or from a call, implies the worker is not
\* running), and a batch is only started with a compiled function.
RunningImpliesFunctionAndNoError ==
    /\ []((wpc = "cmds" /\ running) => (rng_func # None /\ last_error = None))
    /\ []((wpc = "cmds" /\ last_error # None) => ~running)
    /\ [][(wpc = "cmds" /\ wpc' = "loop") => (rng_func # None /\ running)]_vars

\* a call failed: the error is recorded, the function is still there, the
\* worker is not running, and a Reset has been processed since
ErrorRecordedNotRunning ==
    /\ wpc = "cmds"
    /\ last_error = "runtime error"
    /\ rng_func # None
    /\ ~running
    /\ current_state = IntTerm(DEFAULT_STATE)
    /\ total_batches > 0

(***************************************************************************)
(* Claims on the bounds of a batch.                                        *)
(***************************************************************************)
\* the float the k-th push of a batch holds when the batch started at
\* state from, under the six values b: the recurrence is state + 1
PushUnder(from, k, b) ==
    normalize_value(ToI64(from + k), b[2 * ((k - 1) % 3) + 1],
                    b[2 * ((k - 1) % 3) + 2])

\* C36: the six bounds are read once at the start of each batch: every
\* point of a batch is normalized with the same six values, a set() during
\* the batch affects only later batches, and loads interleaved with a set()
\* may give a mix of old and new values across the fields, but each value
\* loaded was passed for its field to some set() or is the default.
BoundsReadOncePerBatch ==
    /\ [][wpc = "loop" => bnd' = bnd]_vars
    /\ [](wpc \in {"loop", "send"}
            => /\ \A k \in 1..Len(batch.data) :
                     batch.data[k] = PushUnder(batch.from.int, k, bnd)
               /\ \A i \in 1..6 : bnd[i] \in atomics.passed[i])

\* a batch of two points was generated under a mix: min_x and max_x of the
\* set() in progress, min_z and max_z still the defaults, while set() has
\* since stored all six
TornBoundsInBatch ==
    /\ wpc = "send"
    /\ Len(batch.data) = 6
    /\ bnd[1] = 0 /\ bnd[2] = 10
    /\ bnd[5] = -500 /\ bnd[6] = 500
    /\ bounds = <<0, 10, -5, 5, 3, 3>>

RECURSIVE FloatsIn(_)
\* the floats of a sequence of batches
FloatsIn(batches) ==
    IF batches = <<>> THEN 0
    ELSE batches[Len(batches)].len + FloatsIn(SubSeq(batches, 1, Len(batches) - 1))

\* C37: a batch dropped on a full channel advances GeneratorState like a
\* delivered one: with fixed bounds and no commands the completed batches,
\* delivered and dropped, are one after the other the segments of the one
\* stream f(seed), f(f(seed)), ..., whatever sizes the controller chose,
\* and the state after them is the seed advanced by all their floats.
DroppedBatchesAdvanceState ==
    /\ \A i \in 1..Len(produced) :
          /\ produced[i].from
                = AfterCalls(IntTerm(DEFAULT_STATE), FloatsIn(SubSeq(produced, 1, i - 1)))
          /\ produced[i].len % 3 = 0
    /\ wpc \in {"cmds", "send"}
          => current_state = AfterCalls(IntTerm(DEFAULT_STATE), FloatsIn(produced))
    /\ Len(produced) = Len(received) + Len(chan) + dropped_batches
                          + (IF wpc = "send" THEN 1 ELSE 0)

\* the channel was full when batch 5 was finished; it was dropped, and batch
\* 6, of another size and started where batch 5 ended, waits in the channel
DeliveredAfterDropped ==
    /\ dropped_batches = 1
    /\ Len(received) = 1
    /\ Len(chan) = CHANNEL_CAPACITY
    /\ chan[1].id = 2
    /\ chan[CHANNEL_CAPACITY].id = 6
    /\ produced[6].len # produced[5].len

\* C38: in every state the owner can observe, dropped_batches is at most
\* total_batches, and no step lowers either counter: not UpdateCode, Reset,
\* SetSeed, Pause or Resume, and not the statistics snapshot
CountersOrderedAndMonotone ==
    /\ [](dropped_batches <= total_batches)
    /\ [][/\ total_batches' >= total_batches
          /\ dropped_batches' >= dropped_batches]_vars

\* a batch started after a Reset was dropped, and the snapshot taken
\* afterwards classified the run by its drop ratio
DroppedAfterReset ==
    /\ dropped_batches = 1
    /\ total_batches = CHANNEL_CAPACITY + 1
    /\ produced[total_batches].from = IntTerm(DEFAULT_STATE)
    /\ [op |-> "Reset"] \in {sent_cmds[i] : i \in 1..Len(sent_cmds)}
    /\ cmdq = <<>>
    /\ bottleneck = "GpuUpload"

\* the floats of window w are whole points of batches the owner received
WholePoints(w) ==
    /\ WinLen(w) % 3 = 0
    /\ \A i \in 1..Len(w) :
          /\ w[i].from % 3 = 0
          /\ w[i].from < w[i].to
          /\ \E j \in 1..Len(received) :
                /\ received[j].id = w[i].id
                /\ received[j].data = produced[w[i].id]
                /\ received[j].data.len % 3 = 0
                /\ w[i].to = received[j].data.len

\* C39: after every operation on them (append with eviction at the front,
\* clear) both accumulated windows hold a multiple of 3 floats, and each
\* retained run of floats starts at a point boundary of a batch the worker
\* generated and runs to that batch's end, for every maximum set in the panel
WindowsHoldWholePoints ==
    /\ WholePoints(accumulated_points_3d)
    /\ WholePoints(accumulated_points_2d)

\* the 2D window is at its maximum with the front of its oldest batch evicted
FrontOf2dBatchEvicted ==
    /\ Len(accumulated_points_2d) = 2
    /\ accumulated_points_2d[1].from > 0
    /\ accumulated_points_2d[2].from = 0
    /\ WinLen(accumulated_points_2d) = grid_size * grid_size * 3

====
